---- MODULE Spec2Model ----
(***************************************************************************)
(* Session orchestration of the SharpLearn study companion:                *)
(*   src/App.tsx                       the orchestrator (App component)    *)
(*   src/hooks/useSpeechRecognition.ts the transcription channel (hook)    *)
(*   src/unnamed/part_001              the vision sampler (FocusTracker)   *)
(*   src/services/geminiService.ts     the generative-text client          *)
(*                                                                         *)
(* React semantics used throughout: state setters called in one handler    *)
(* turn are applied together (automatic batching), the component then      *)
(* renders once and its effects run; a callback keeps the values of the    *)
(* render that created it.  Every action below is one handler turn         *)
(* followed by that render and its effects (Render).                       *)
(***************************************************************************)
EXTENDS Integers, Sequences, FiniteSets, TLC

\* ------------------------------------------------------------------ bounds
MaxSessions == 2       \* media streams acquired in one behaviour
MaxPendingStarts == 2  \* getUserMedia calls in flight at once
MaxTurnLen == 3        \* tokens accumulated in one turn
MaxTranscriptLen == 6  \* tokens in the committed transcript
MaxClears == 2         \* delayed interim clears pending at once
MaxKeySelects == 1     \* key re-selections by the user
MaxSamples == 5        \* frames captured in one behaviour
MaxInflight == 2       \* analyzeFocus calls in flight at once
MaxSubjectCalls == 2   \* periodic identifySubject calls in flight at once
CoarseTurnLen == 1     \* tokens in a turn of the orchestrator's scenarios
CoarseSamples == 1     \* frames captured in the orchestrator's scenarios
RestartSamples == 2    \* frames captured in the focus scenario over two sessions
CoarseTranscriptLen == 4  \* tokens committed in the orchestrator's scenarios
CoarseClears == 1      \* delayed clears pending in the orchestrator's scenarios
MaxStartAlerts == 1    \* failed media acquisitions in one behaviour
MaxBlockLen == 2       \* samples in one audio block
MaxSubjectFailures == 1  \* periodic identifySubject calls that fail in one behaviour
MaxClasses == 3        \* registered classes

\* ------------------------------------------------------------------ text
\* A text is a sequence of tokens.  " " is one whitespace character, "a" one
\* letter, "W" a run of 250 letters (long enough for the length thresholds),
\* "L" a run of 50 letters (the threshold of the class-name generation).
Tokens == {"a", " ", "W", "L"}

Width(t) == IF t = "W" THEN 250 ELSE IF t = "L" THEN 50 ELSE 1

RECURSIVE StrLen(_)
StrLen(s) == IF s = <<>> THEN 0 ELSE Width(Head(s)) + StrLen(Tail(s))

RECURSIVE TrimStart(_)
TrimStart(s) == IF s = <<>> THEN s
                ELSE IF Head(s) = " " THEN TrimStart(Tail(s)) ELSE s

RECURSIVE TrimEnd(_)
TrimEnd(s) == IF s = <<>> THEN s
              ELSE IF s[Len(s)] = " " THEN TrimEnd(SubSeq(s, 1, Len(s) - 1)) ELSE s

Trim(s) == TrimEnd(TrimStart(s))

\* String.prototype.includes on sequences of words (punctuation is a word of
\* its own, so that a pattern can end before it).
Includes(hay, needle) ==
    \E i \in 1..(Len(hay) + 1) :
        /\ i + Len(needle) - 1 <= Len(hay)
        /\ SubSeq(hay, i, i + Len(needle) - 1) = needle

\* ------------------------------------------------------------------ messages
NoError == <<>>
MsgKeyNotSetHook == <<"Could", "not", "start", "transcription", "service:", "API_KEY",
                      "environment", "variable", "not", "set.", "Please", "select",
                      "an", "API", "key.">>
MsgTranscriptionError == <<"A", "transcription", "error", "occurred.", "The",
                           "connection", "was", "closed.">>
MsgKeyNotSetService == <<"API_KEY", "environment", "variable", "not", "set.", "Please",
                         "select", "an", "API", "key", "in", "the", "application.">>
\* Messages of the remote provider (the two the handler recognises, and another).
MsgInvalidKey == <<"API", "key", "not", "valid", ".", "Please", "pass", "a",
                   "valid", "API", "key", ".">>
MsgNotFound == <<"Requested", "entity", "was", "not", "found", ".">>
MsgQuota == <<"Resource", "has", "been", "exhausted">>
ProviderErrors == {MsgInvalidKey, MsgNotFound, MsgQuota}

CouldNotStart(m) == <<"Could", "not", "start", "transcription", "service:">> \o m

PatNotFound == <<"Requested", "entity", "was", "not", "found">>
PatKeyNotValid == <<"API", "key", "not", "valid">>

\* ------------------------------------------------------------------ state
VARIABLES
    apiKey,              \* process.env.API_KEY is set
    appState,            \* "SETUP" | "ACTIVE" | "LOADING" | "SUMMARY"
    sessionData,         \* Partial<Session>
    subject,
    isSubjectLoading,
    fullTranscript,      \* the committed transcript
    interimTranscript,
    focusHistory,
    lowFocusTimestamps,
    isApiKeySelected,    \* "null" | "true" | "false"
    mediaStreamRef,      \* a stream id, 0 for null
    isListening,
    error,
    sessionRef,          \* a connection id, 0 for null
    audioContextRef,     \* the connection whose AudioContext is held, 0 for null
    scriptProcessorRef,  \* the connection whose audio graph is held, 0 for null
    handlerListening,    \* isListening as captured by handleApiError's stopListening
    streamStops,         \* per acquired stream: how often its tracks were stopped
    conns,               \* the live-transcription connections ever requested
    pendingStarts,       \* getUserMedia calls in flight
    pendingClears,       \* delayed interim clears (setTimeout 100) not yet run
    pendingKeyChecks,    \* checkApiKey calls in flight
    keySelects,          \* how often the user re-selected a key
    pipelines,           \* finalizations in progress (endSession past its first await)
    failedSessions,      \* history: the sessions whose finalization failed, and where
    subjectCalls,        \* periodic identifySubject calls in flight
    trackers,            \* the FocusTracker instances ever mounted
    trackerMounted,      \* the mounted FocusTracker instance, 0 for none
    warmups,             \* setTimeout(1000) callbacks of the sampler not yet run
    intervals,           \* armed analysis intervals
    nIntervals,          \* interval ids handed out
    inflight,            \* analyzeFocus calls in flight
    samples,             \* frames captured so far
    now,                 \* Date.now(), counted in classifications completed
    teacherAlerts,       \* requests sent to the external notification service
    startAlerts,         \* alerts shown by the catch of startSession / startQuickSession
    audioSent,           \* the last media blob sent to the live session, <<>> for none
    subjectFailures,     \* history: periodic identifySubject calls that threw
    registeredClasses,   \* the classes with their saved sessions
    isViewingSavedSummary

vars == <<apiKey, appState, sessionData, subject, isSubjectLoading, fullTranscript,
          interimTranscript, focusHistory, lowFocusTimestamps, isApiKeySelected,
          mediaStreamRef, isListening, error, sessionRef, audioContextRef,
          scriptProcessorRef, handlerListening, streamStops, conns, pendingStarts,
          pendingClears, pendingKeyChecks, keySelects, pipelines, failedSessions,
          subjectCalls, trackers, trackerMounted, warmups, intervals, nIntervals,
          inflight, samples, now, teacherAlerts, startAlerts, audioSent,
          subjectFailures, registeredClasses, isViewingSavedSummary>>

\* The program state as one record, so that handlers are functions on it.
Cur == [appState |-> appState, sessionData |-> sessionData, subject |-> subject,
        isSubjectLoading |-> isSubjectLoading, fullTranscript |-> fullTranscript,
        interimTranscript |-> interimTranscript, focusHistory |-> focusHistory,
        lowFocusTimestamps |-> lowFocusTimestamps,
        isApiKeySelected |-> isApiKeySelected, mediaStreamRef |-> mediaStreamRef,
        isListening |-> isListening, error |-> error, sessionRef |-> sessionRef,
        audioContextRef |-> audioContextRef, scriptProcessorRef |-> scriptProcessorRef,
        handlerListening |-> handlerListening, streamStops |-> streamStops,
        conns |-> conns, pendingClears |-> pendingClears, trackers |-> trackers,
        trackerMounted |-> trackerMounted, warmups |-> warmups,
        intervals |-> intervals, nIntervals |-> nIntervals, now |-> now,
        teacherAlerts |-> teacherAlerts]

EmptySession == [keys |-> {}, id |-> 0, className |-> "", subject |-> "",
                 startTime |-> 0, endTime |-> 0, focusHistory |-> <<>>,
                 lowFocusTimestamps |-> <<>>, fullTranscript |-> <<>>,
                 notes |-> "", summary |-> ""]

\* sessionStateRef.current: the mirror of the state written by the effect that
\* follows every render; a handler reads the values of the last render.
sessionStateRef == [fullTranscript |-> fullTranscript,
                    interimTranscript |-> interimTranscript,
                    subject |-> subject, focusHistory |-> focusHistory,
                    lowFocusTimestamps |-> lowFocusTimestamps]

\* ------------------------------------------------------------------ the hook
\* il: isListening as captured by the startListening call that made the connection
\* (and so by the stopListening its callbacks call).
NewConn(stream, il) == [status |-> "opening", stream |-> stream, cur |-> <<>>,
                        graph |-> FALSE, ctxClosed |-> FALSE, il |-> il]

\* stopListening as created by a render in which isListening was il.
stopListening(s, il) ==
    IF ~il THEN s
    ELSE [s EXCEPT
            !.isListening = FALSE,
            !.conns = [c \in DOMAIN s.conns |->
                         [s.conns[c] EXCEPT
                            !.graph = IF c = s.scriptProcessorRef THEN FALSE ELSE @,
                            !.ctxClosed = IF c = s.audioContextRef THEN TRUE ELSE @,
                            !.status = IF c = s.sessionRef THEN "closed" ELSE @]],
            !.scriptProcessorRef = 0,
            !.audioContextRef = 0,
            !.sessionRef = 0,
            !.interimTranscript = <<>>]

\* Variant: the tracks are stopped but the reference is kept.
StopTracksKeepRef(s) ==
    IF s.mediaStreamRef = 0 THEN s
    ELSE [s EXCEPT !.streamStops[s.mediaStreamRef] = @ + 1]

\* mediaStreamRef.current.getTracks().forEach(track => track.stop()), then null.
StopTracks(s) ==
    IF s.mediaStreamRef = 0 THEN s
    ELSE [s EXCEPT !.streamStops[s.mediaStreamRef] = @ + 1, !.mediaStreamRef = 0]

\* ------------------------------------------------------------------ App
IsAuthError(message) ==
    Includes(message, PatNotFound) \/ Includes(message, PatKeyNotValid)

\* The closure of handleApiError made by a render: the appState it tests and
\* the stopListening it calls.
Handler(s) == [app |-> s.appState, sl |-> s.handlerListening]

\* Variant: invalidates the credential flag but never stops the session.
handleApiErrorNoStop(s, message, h) ==
    IF IsAuthError(message) THEN [s EXCEPT !.isApiKeySelected = "false"] ELSE s

\* Variant: treats every error as an authentication error.
handleApiErrorAlways(s, message, h) ==
    LET s1 == [s EXCEPT !.isApiKeySelected = "false"]
    IN  IF h.app = "ACTIVE"
        THEN [StopTracks(stopListening(s1, h.sl)) EXCEPT !.appState = "SETUP"]
        ELSE s1

\* handleApiError as created by a render with closure h.
handleApiError(s, message, h) ==
    IF IsAuthError(message)
    THEN LET s1 == [s EXCEPT !.isApiKeySelected = "false"]
         IN  IF h.app = "ACTIVE"
             THEN [StopTracks(stopListening(s1, h.sl)) EXCEPT !.appState = "SETUP"]
             ELSE s1
    ELSE s

\* ------------------------------------------------------------------ rendering
\* The FocusTracker is part of the tree only on the ACTIVE screen of a render
\* that got past the key gate.
Rendered(s, screen) == s.isApiKeySelected = "true" /\ s.appState = screen

NewTracker == [lowFocusCounter |-> 0, teacherAlertSent |-> FALSE,
               analysisIntervalRef |-> 0,
               scoreLog |-> <<>>, lowFocusLog |-> <<>>, alertLog |-> <<>>]

\* analyzeFrame as created by a render of instance inst: what it captured.
AnalyzeFrame(s, inst) ==
    [inst |-> inst, h |-> Handler(s),
     className |-> IF s.sessionData.className = "" THEN "Unknown Class"
                   ELSE s.sessionData.className]

\* The cleanup of the sampler's effect: clearInterval(analysisIntervalRef.current).
TrackerCleanup(s, inst) ==
    [s EXCEPT !.intervals = {iv \in @ : iv.id # s.trackers[inst].analysisIntervalRef}]

\* The body of the sampler's effect.
TrackerArm(s, inst) ==
    IF s.mediaStreamRef = 0 THEN s
    ELSE [TrackerCleanup(s, inst) EXCEPT
            !.warmups = Append(@, AnalyzeFrame(s, inst))]

\* o: the state of the previous render; n: the state being rendered.
TrackerEffect(o, n) ==
    LET was == o.trackerMounted # 0
        is == Rendered(n, "ACTIVE")
    IN  CASE ~was /\ is ->
               LET inst == Len(n.trackers) + 1
               IN  TrackerArm([n EXCEPT !.trackers = Append(@, NewTracker),
                                        !.trackerMounted = inst], inst)
          [] was /\ is ->
               IF \/ n.mediaStreamRef # o.mediaStreamRef
                  \/ AnalyzeFrame(n, o.trackerMounted) # AnalyzeFrame(o, o.trackerMounted)
               THEN TrackerArm(TrackerCleanup(n, o.trackerMounted), o.trackerMounted)
               ELSE n
          [] was /\ ~is ->
               [TrackerCleanup(n, o.trackerMounted) EXCEPT !.trackerMounted = 0]
          [] OTHER -> n

\* handleApiError is re-created when appState changes, and then captures the
\* stopListening of that render.
Closure(o, n) ==
    [n EXCEPT !.handlerListening =
                 IF n.appState # o.appState THEN n.isListening ELSE o.handlerListening]

\* useEffect(() => { if (error) handleApiError({message: error}) }, [error, handleApiError])
ErrorEffect(o, n) ==
    IF (n.error # o.error \/ n.appState # o.appState) /\ n.error # NoError
    THEN handleApiError(n, n.error, Handler(n))
    ELSE n

RenderPass(o, n) == ErrorEffect(o, TrackerEffect(o, Closure(o, n)))

\* One render and its effects, and the render the effects' own updates cause.
Render(o, n) ==
    LET shown == Closure(o, n)
        r1 == RenderPass(o, n)
    IN  RenderPass([r1 EXCEPT !.appState = shown.appState, !.error = shown.error,
                              !.mediaStreamRef = shown.mediaStreamRef,
                              !.sessionData = shown.sessionData,
                              !.handlerListening = shown.handlerListening,
                              !.isApiKeySelected = shown.isApiKeySelected], r1)

\* The subject-detection interval is armed by the effect on isListening, which
\* re-arms it with the current processTranscriptPeriodically on every change.
subjectDetectionTimer == isListening

Commit(n) ==
    \E r \in {Render(Cur, n)} :
        /\ appState' = r.appState
        /\ sessionData' = r.sessionData
        /\ subject' = r.subject
        /\ isSubjectLoading' = r.isSubjectLoading
        /\ fullTranscript' = r.fullTranscript
        /\ interimTranscript' = r.interimTranscript
        /\ focusHistory' = r.focusHistory
        /\ lowFocusTimestamps' = r.lowFocusTimestamps
        /\ isApiKeySelected' = r.isApiKeySelected
        /\ mediaStreamRef' = r.mediaStreamRef
        /\ isListening' = r.isListening
        /\ error' = r.error
        /\ sessionRef' = r.sessionRef
        /\ audioContextRef' = r.audioContextRef
        /\ scriptProcessorRef' = r.scriptProcessorRef
        /\ handlerListening' = r.handlerListening
        /\ streamStops' = r.streamStops
        /\ conns' = r.conns
        /\ pendingClears' = r.pendingClears
        /\ trackers' = r.trackers
        /\ trackerMounted' = r.trackerMounted
        /\ warmups' = r.warmups
        /\ intervals' = r.intervals
        /\ nIntervals' = r.nIntervals
        /\ now' = r.now
        /\ teacherAlerts' = r.teacherAlerts

\* ------------------------------------------------------------------ inputs
ClassNames == {"Bio"}                         \* the classes loaded from local storage
QuickRecord == "Quick Record"
TextParts == {<<"a">>, <<" ">>, <<"W">>}       \* inputTranscription.text of a message
Scores == {0, 20, 30, 40, 59, 60, 70, 80}                    \* focusScore of a classification
GeneratedClassNames == {"Physics", "Untitled Recording"}
IdentifiedSubjects == {"Math", "Unknown"}
GeneratedNotes == "NOTES"
GeneratedSummary == "SUMMARY"

\* What a generative call on text can throw: getAiClient's error without a key,
\* the provider's errors with one; nothing when the text is blank (the call
\* returns its canned result before creating a client).
CallErrors(text) ==
    IF Trim(text) = <<>> THEN {}
    ELSE IF ~apiKey THEN {MsgKeyNotSetService} ELSE ProviderErrors

\* Whether a generative call on text can return, and the results it can return.
CallResults(text, canned, generated) ==
    IF Trim(text) = <<>> THEN {canned}
    ELSE IF ~apiKey THEN {} ELSE generated

RemoveAt(seq, i) == SubSeq(seq, 1, i - 1) \o SubSeq(seq, i + 1, Len(seq))

\* ------------------------------------------------------------------ Init
Init ==
    /\ apiKey \in BOOLEAN
    /\ appState = "SETUP"
    /\ sessionData = EmptySession
    /\ subject = ""
    /\ isSubjectLoading = FALSE
    /\ fullTranscript = <<>>
    /\ interimTranscript = <<>>
    /\ focusHistory = <<>>
    /\ lowFocusTimestamps = <<>>
    /\ isApiKeySelected = "null"
    /\ mediaStreamRef = 0
    /\ isListening = FALSE
    /\ error = NoError
    /\ sessionRef = 0
    /\ audioContextRef = 0
    /\ scriptProcessorRef = 0
    /\ handlerListening = FALSE
    /\ streamStops = <<>>
    /\ conns = <<>>
    /\ pendingStarts = <<>>
    /\ pendingClears = 0
    /\ pendingKeyChecks = 1
    /\ keySelects = 0
    /\ pipelines = {}
    /\ failedSessions = {}
    /\ subjectCalls = <<>>
    /\ trackers = <<>>
    /\ trackerMounted = 0
    /\ warmups = <<>>
    /\ intervals = {}
    /\ nIntervals = 0
    /\ inflight = <<>>
    /\ samples = 0
    /\ now = 0
    /\ teacherAlerts = 0
    /\ startAlerts = 0
    /\ audioSent = <<>>
    /\ subjectFailures = 0
    /\ registeredClasses = <<[id |-> 1, name |-> "Bio", sessions |-> <<>>]>>
    /\ isViewingSavedSummary = FALSE

\* ------------------------------------------------------------------ key gate
\* checkApiKey resolves: hasSelectedApiKey's answer, true without aistudio,
\* false when the check throws.
CheckApiKey(hasKey) ==
    /\ pendingKeyChecks > 0
    /\ Commit([Cur EXCEPT !.isApiKeySelected = hasKey])
    /\ pendingKeyChecks' = pendingKeyChecks - 1
    /\ UNCHANGED <<apiKey, registeredClasses, isViewingSavedSummary, subjectFailures, startAlerts, audioSent, pendingStarts, keySelects, pipelines, failedSessions,
                   subjectCalls, inflight, samples>>

handleSelectKey ==
    /\ isApiKeySelected = "false"
    /\ keySelects < MaxKeySelects
    /\ keySelects' = keySelects + 1
    /\ pendingKeyChecks' = pendingKeyChecks + 1
    /\ Commit(Cur)
    /\ UNCHANGED <<apiKey, registeredClasses, isViewingSavedSummary, subjectFailures, startAlerts, audioSent, pendingStarts, pipelines, failedSessions, subjectCalls,
                   inflight, samples>>

\* ------------------------------------------------------------------ start
\* startSession / startQuickSession up to their await of getUserMedia.  The
\* button is on the SETUP screen; the closure keeps this render's startListening.
RequestMedia(className) ==
    /\ Rendered(Cur, "SETUP")
    /\ Len(pendingStarts) < MaxPendingStarts
    /\ Len(streamStops) + Len(pendingStarts) < MaxSessions
    /\ pendingStarts' = Append(pendingStarts, [className |-> className, il |-> isListening])
    /\ Commit(Cur)
    /\ UNCHANGED <<apiKey, registeredClasses, isViewingSavedSummary, subjectFailures, startAlerts, audioSent, pendingKeyChecks, keySelects, pipelines, failedSessions,
                   subjectCalls, inflight, samples>>

startSession == \E i \in DOMAIN registeredClasses : RequestMedia(registeredClasses[i].name)

startQuickSession == RequestMedia(QuickRecord)

\* startListening up to its await of the connect promise.
startListening(s, stream, il) ==
    IF il THEN s
    ELSE IF ~apiKey THEN [s EXCEPT !.error = MsgKeyNotSetHook]
    ELSE [s EXCEPT !.error = NoError, !.isListening = TRUE,
                   !.conns = Append(@, NewConn(stream, il)),
                   !.audioContextRef = Len(s.conns) + 1]

\* The rest of startSession / startQuickSession once getUserMedia resolved.
SessionStarted(s, className, il) ==
    LET stream == Len(s.streamStops) + 1
        t == s.now
        s1 == [s EXCEPT
                 !.streamStops = Append(@, 0),
                 !.mediaStreamRef = stream,
                 !.appState = "ACTIVE",
                 !.subject = "",
                 !.sessionData = [EmptySession EXCEPT
                                    !.keys = {"id", "className", "subject", "startTime"},
                                    !.id = stream, !.className = className,
                                    !.startTime = t],
                 !.focusHistory = <<>>,
                 !.lowFocusTimestamps = <<>>,
                 !.fullTranscript = <<>>,
                 !.interimTranscript = <<>>]
    IN  startListening(s1, stream, il)

GetUserMediaResolved(i) ==
    /\ i \in DOMAIN pendingStarts
    /\ pendingStarts' = RemoveAt(pendingStarts, i)
    /\ isViewingSavedSummary' = FALSE
    /\ Commit(SessionStarted(Cur, pendingStarts[i].className, pendingStarts[i].il))
    /\ UNCHANGED <<apiKey, registeredClasses, subjectFailures, startAlerts, audioSent, pendingKeyChecks, keySelects, pipelines, failedSessions,
                   subjectCalls, inflight, samples>>

\* Variant: the rejection is caught after the session was reset and shown.
GetUserMediaRejectedAfterReset(i) ==
    /\ i \in DOMAIN pendingStarts
    /\ startAlerts < MaxStartAlerts
    /\ pendingStarts' = RemoveAt(pendingStarts, i)
    /\ startAlerts' = startAlerts + 1
    /\ Commit([Cur EXCEPT !.appState = "ACTIVE", !.subject = "",
                          !.fullTranscript = <<>>, !.focusHistory = <<>>])
    /\ UNCHANGED <<apiKey, registeredClasses, isViewingSavedSummary, subjectFailures, audioSent, pendingKeyChecks, keySelects, pipelines,
                   failedSessions, subjectCalls, inflight, samples>>

\* getUserMedia rejects: the catch only alerts.
GetUserMediaRejected(i) ==
    /\ i \in DOMAIN pendingStarts
    /\ startAlerts < MaxStartAlerts
    /\ pendingStarts' = RemoveAt(pendingStarts, i)
    /\ startAlerts' = startAlerts + 1
    /\ Commit(Cur)
    /\ UNCHANGED <<apiKey, registeredClasses, isViewingSavedSummary, subjectFailures, audioSent, pendingKeyChecks, keySelects, pipelines,
                   failedSessions, subjectCalls, inflight, samples>>

\* ------------------------------------------------------------------ audio
\* A sample is a multiple of 1/65536 (half a quantization step), given by its
\* numerator: 65536 is +1.0, -65536 is -1.0.
QuantizationScale == 32768

SampleDenominator == 2 * QuantizationScale

Samples == {-65536, -65535, -32769, -3, -1, 0, 1, 3, 32767, 65534, 65535, 65536}

Blocks == UNION {[1..n -> Samples] : n \in 1..MaxBlockLen}

\* The integer part of a / b, b > 0 (the truncation of ToIntegerOrInfinity).
Truncate(a, b) == IF a >= 0 THEN a \div b ELSE -((-a) \div b)

\* The store of a / b into an Int16Array element: truncate, then wrap modulo
\* 2^16.  (sample * 32768 is numerator / (SampleDenominator / 32768).)
ToInt16(a, b) ==
    LET m == Truncate(a, b) % 65536
    IN  IF m >= 32768 THEN m - 65536 ELSE m

\* new Uint8Array(int16.buffer): two bytes per element, low byte first.
BytesOf(int16) ==
    [j \in 1..(2 * Len(int16)) |->
        LET u == int16[(j + 1) \div 2] % 65536
        IN  IF j % 2 = 1 THEN u % 256 ELSE u \div 256]

Pad == 64

\* btoa on the binary string of the bytes: the base64 digits, Pad for "=".
RECURSIVE encode(_)
encode(bytes) ==
    IF bytes = <<>> THEN <<>>
    ELSE IF Len(bytes) = 1
    THEN <<bytes[1] \div 4, (bytes[1] % 4) * 16, Pad, Pad>>
    ELSE IF Len(bytes) = 2
    THEN <<bytes[1] \div 4, (bytes[1] % 4) * 16 + bytes[2] \div 16,
           (bytes[2] % 16) * 4, Pad>>
    ELSE <<bytes[1] \div 4, (bytes[1] % 4) * 16 + bytes[2] \div 16,
           (bytes[2] % 16) * 4 + bytes[3] \div 64, bytes[3] % 64>>
         \o encode(SubSeq(bytes, 4, Len(bytes)))

createBlob(data) ==
    LET int16 == [i \in 1..Len(data) |-> ToInt16(data[i], SampleDenominator \div QuantizationScale)]
    IN  [data |-> encode(BytesOf(int16)), mimeType |-> "audio/pcm;rate=16000"]

\* ------------------------------------------------------------------ channel
\* The connection opens.  onopen builds the audio graph on the context made
\* for this connection, the connect promise resolves and startListening stores
\* the session.  On a context that was closed meanwhile the browser either
\* still creates the nodes or throws from createMediaStreamSource, and then
\* onopen ends there and the connect promise is not settled by it.
LiveOpened(c) ==
    /\ c \in DOMAIN conns
    /\ conns[c].status = "opening"
    /\ \E attached \in (IF conns[c].ctxClosed THEN BOOLEAN ELSE {TRUE}) :
           Commit([Cur EXCEPT !.conns[c].status = "open",
                              !.conns[c].graph = attached,
                              !.scriptProcessorRef = IF attached THEN c ELSE @,
                              !.sessionRef = IF attached THEN c ELSE @])
    /\ UNCHANGED <<apiKey, registeredClasses, isViewingSavedSummary, subjectFailures, startAlerts, audioSent, pendingStarts, pendingKeyChecks, keySelects, pipelines,
                   failedSessions, subjectCalls, inflight, samples>>

\* onaudioprocess: a block of the microphone is encoded and sent.  A closed
\* context processes no audio.
AudioProcess(c, inputData) ==
    /\ c \in DOMAIN conns
    /\ conns[c].graph
    /\ ~conns[c].ctxClosed
    /\ conns[c].status = "open"
    /\ audioSent' = [conn |-> c, inputData |-> inputData, media |-> createBlob(inputData)]
    /\ Commit(Cur)
    /\ UNCHANGED <<apiKey, registeredClasses, isViewingSavedSummary, subjectFailures, startAlerts, pendingStarts, pendingKeyChecks, keySelects,
                   pipelines, failedSessions, subjectCalls, inflight, samples>>

\* The connect promise rejects: the catch of startListening.
LiveConnectRejected(c, message) ==
    /\ c \in DOMAIN conns
    /\ conns[c].status = "opening"
    /\ Commit(stopListening([Cur EXCEPT !.conns[c].status = "failed",
                                        !.error = CouldNotStart(message)],
                            conns[c].il))
    /\ UNCHANGED <<apiKey, registeredClasses, isViewingSavedSummary, subjectFailures, startAlerts, audioSent, pendingStarts, pendingKeyChecks, keySelects, pipelines,
                   failedSessions, subjectCalls, inflight, samples>>

handleTranscriptChunk(s, chunk) == [s EXCEPT !.fullTranscript = @ \o chunk]

\* Variant: every interim text is appended to the committed transcript.
onmessageAppendInterims(s, c, newTextPart, isTurnComplete) ==
    LET currentTurnTranscription == s.conns[c].cur \o newTextPart
        s1 == [s EXCEPT !.interimTranscript = currentTurnTranscription,
                        !.fullTranscript = @ \o currentTurnTranscription]
    IN  IF isTurnComplete
        THEN [s1 EXCEPT !.conns[c].cur = <<>>, !.pendingClears = @ + 1]
        ELSE [s1 EXCEPT !.conns[c].cur = currentTurnTranscription]

\* onmessage for a message that carries inputTranscription (others are ignored).
onmessage(s, c, newTextPart, isTurnComplete) ==
    LET currentTurnTranscription == s.conns[c].cur \o newTextPart
        s1 == [s EXCEPT !.interimTranscript = currentTurnTranscription]
    IN  IF isTurnComplete
        THEN [(IF Trim(currentTurnTranscription) # <<>>
               THEN handleTranscriptChunk(s1, Trim(currentTurnTranscription) \o <<" ">>)
               ELSE s1)
              EXCEPT !.conns[c].cur = <<>>, !.pendingClears = @ + 1]
        ELSE [s1 EXCEPT !.conns[c].cur = currentTurnTranscription]

LiveMessage(c, newTextPart, isTurnComplete) ==
    /\ c \in DOMAIN conns
    /\ conns[c].status = "open"
    /\ Len(conns[c].cur) + Len(newTextPart) <= MaxTurnLen
    /\ Len(fullTranscript) + Len(conns[c].cur) + Len(newTextPart) < MaxTranscriptLen
    /\ isTurnComplete => pendingClears < MaxClears
    /\ Commit(onmessage(Cur, c, newTextPart, isTurnComplete))
    /\ UNCHANGED <<apiKey, registeredClasses, isViewingSavedSummary, subjectFailures, startAlerts, audioSent, pendingStarts, pendingKeyChecks, keySelects, pipelines,
                   failedSessions, subjectCalls, inflight, samples>>

\* setTimeout(() => onInterimTranscriptChange(''), 100) runs.
InterimClearTimeout ==
    /\ pendingClears > 0
    /\ Commit([Cur EXCEPT !.pendingClears = @ - 1, !.interimTranscript = <<>>])
    /\ UNCHANGED <<apiKey, registeredClasses, isViewingSavedSummary, subjectFailures, startAlerts, audioSent, pendingStarts, pendingKeyChecks, keySelects, pipelines,
                   failedSessions, subjectCalls, inflight, samples>>

\* onerror: the transport fails while the session is open.
LiveError(c) ==
    /\ c \in DOMAIN conns
    /\ conns[c].status = "open"
    /\ Commit(stopListening([Cur EXCEPT !.conns[c].status = "errored",
                                        !.error = MsgTranscriptionError],
                            conns[c].il))
    /\ UNCHANGED <<apiKey, registeredClasses, isViewingSavedSummary, subjectFailures, startAlerts, audioSent, pendingStarts, pendingKeyChecks, keySelects, pipelines,
                   failedSessions, subjectCalls, inflight, samples>>

\* ------------------------------------------------------------------ endSession
NeedsSubject(finalSubject) ==
    finalSubject = "" \/ finalSubject = "Unknown" \/ finalSubject = "Not detected"

\* endSession up to its first await: the teardown, the final transcript and
\* the record the pipeline works on.  pc is the call the pipeline awaits and
\* summarySubject the subject passed to generateFinalSummary, "" before that
\* call is issued.
Finalization(s, ref) ==
    LET finalTranscript == Trim(ref.fullTranscript \o <<" ">> \o ref.interimTranscript)
        finalSessionData ==
            [s.sessionData EXCEPT
               !.keys = @ \cup {"endTime", "focusHistory", "lowFocusTimestamps",
                                "fullTranscript", "subject"},
               !.endTime = s.now,
               !.focusHistory = ref.focusHistory,
               !.lowFocusTimestamps = ref.lowFocusTimestamps,
               !.fullTranscript = finalTranscript,
               !.subject = IF ref.subject = "" THEN "Not detected" ELSE ref.subject]
    IN  [id |-> s.sessionData.id,
         pc |-> IF s.sessionData.className = QuickRecord
                   /\ StrLen(Trim(finalTranscript)) > 50
                THEN "className" ELSE "notes",
         finalTranscript |-> finalTranscript,
         finalSubject |-> ref.subject,
         data |-> finalSessionData,
         notes |-> "",
         summarySubject |-> "",
         h |-> Handler(s)]

endSession ==
    /\ Rendered(Cur, "ACTIVE")
    /\ pipelines' = pipelines \cup {Finalization(Cur, sessionStateRef)}
    /\ Commit([StopTracks(stopListening(Cur, isListening)) EXCEPT
                 !.appState = "LOADING"])
    /\ UNCHANGED <<apiKey, registeredClasses, isViewingSavedSummary, subjectFailures, startAlerts, audioSent, pendingStarts, pendingKeyChecks, keySelects, failedSessions,
                   subjectCalls, inflight, samples>>

\* Variant: the generated name is not adopted.
ClassNameGeneratedDiscarded(f, name) ==
    /\ f \in pipelines
    /\ f.pc = "className"
    /\ name \in CallResults(f.finalTranscript, "Untitled Recording", GeneratedClassNames)
    /\ pipelines' = (pipelines \ {f}) \cup
                    {[f EXCEPT !.pc = IF NeedsSubject(f.finalSubject)
                                      THEN "subject" ELSE "notes"]}
    /\ Commit(Cur)
    /\ UNCHANGED <<apiKey, registeredClasses, isViewingSavedSummary, subjectFailures, startAlerts, audioSent, pendingStarts, pendingKeyChecks, keySelects, failedSessions,
                   subjectCalls, inflight, samples>>

\* generateClassNameFromTranscript returned.
ClassNameGenerated(f, name) ==
    /\ f \in pipelines
    /\ f.pc = "className"
    /\ name \in CallResults(f.finalTranscript, "Untitled Recording", GeneratedClassNames)
    /\ pipelines' = (pipelines \ {f}) \cup
                    {[f EXCEPT !.data.className = name,
                               !.pc = IF NeedsSubject(f.finalSubject)
                                      THEN "subject" ELSE "notes"]}
    /\ Commit(Cur)
    /\ UNCHANGED <<apiKey, registeredClasses, isViewingSavedSummary, subjectFailures, startAlerts, audioSent, pendingStarts, pendingKeyChecks, keySelects, failedSessions,
                   subjectCalls, inflight, samples>>

\* identifySubject (of the pipeline) returned.
FinalSubjectIdentified(f, subj) ==
    /\ f \in pipelines
    /\ f.pc = "subject"
    /\ subj \in CallResults(f.finalTranscript, "Unknown", IdentifiedSubjects)
    /\ pipelines' = (pipelines \ {f}) \cup
                    {[f EXCEPT !.data.subject = subj, !.pc = "notes"]}
    /\ Commit(Cur)
    /\ UNCHANGED <<apiKey, registeredClasses, isViewingSavedSummary, subjectFailures, startAlerts, audioSent, pendingStarts, pendingKeyChecks, keySelects, failedSessions,
                   subjectCalls, inflight, samples>>

\* Variant: the summary is requested with the subject endSession read from
\* the session state, not the one the pipeline resolved.
NotesStructuredStaleSubject(f) ==
    /\ f \in pipelines
    /\ f.pc = "notes"
    /\ \E notes \in CallResults(f.finalTranscript, "", {GeneratedNotes}) :
           pipelines' = (pipelines \ {f}) \cup
                        {[f EXCEPT !.notes = notes, !.pc = "summary",
                                   !.summarySubject = IF f.finalSubject = ""
                                                      THEN "Not detected"
                                                      ELSE f.finalSubject]}
    /\ Commit(Cur)
    /\ UNCHANGED <<apiKey, registeredClasses, isViewingSavedSummary, subjectFailures, startAlerts, audioSent, pendingStarts, pendingKeyChecks, keySelects, failedSessions,
                   subjectCalls, inflight, samples>>

\* structureNotes returned, and generateFinalSummary is called with the
\* subject of the record.
NotesStructured(f) ==
    /\ f \in pipelines
    /\ f.pc = "notes"
    /\ \E notes \in CallResults(f.finalTranscript, "", {GeneratedNotes}) :
           pipelines' = (pipelines \ {f}) \cup
                        {[f EXCEPT !.notes = notes, !.pc = "summary",
                                   !.summarySubject = f.data.subject]}
    /\ Commit(Cur)
    /\ UNCHANGED <<apiKey, registeredClasses, isViewingSavedSummary, subjectFailures, startAlerts, audioSent, pendingStarts, pendingKeyChecks, keySelects, failedSessions,
                   subjectCalls, inflight, samples>>

\* Variant: the record with the notes alone.
SealedNotesOnly(f, summary) ==
    [f.data EXCEPT !.keys = @ \cup {"notes"}, !.notes = f.notes]

\* The record endSession stores on success.
Sealed(f, summary) ==
    [f.data EXCEPT !.keys = @ \cup {"notes", "summary"},
                   !.notes = f.notes, !.summary = summary]

\* generateFinalSummary returned: the session is stored and shown.
SummaryGenerated(f) ==
    /\ f \in pipelines
    /\ f.pc = "summary"
    /\ pipelines' = pipelines \ {f}
    /\ \E summary \in CallResults(f.finalTranscript, "No content to summarize.",
                                  {GeneratedSummary}) :
           Commit([Cur EXCEPT !.sessionData = Sealed(f, summary),
                              !.appState = "SUMMARY"])
    /\ UNCHANGED <<apiKey, registeredClasses, isViewingSavedSummary, subjectFailures, startAlerts, audioSent, pendingStarts, pendingKeyChecks, keySelects, failedSessions,
                   subjectCalls, inflight, samples>>

\* Variant: a failure of the summary keeps the notes already generated.
FinalizationCaughtStoresNotes(s, f, message) ==
    [handleApiError(s, message, f.h) EXCEPT
       !.appState = "SETUP",
       !.sessionData = IF f.pc = "summary" THEN SealedNotesOnly(f, "") ELSE @]

\* Variant: the catch reports the error and leaves the loading screen up.
FinalizationCaughtStaysLoading(s, f, message) == handleApiError(s, message, f.h)

\* The catch of endSession.
FinalizationCaught(s, f, message) ==
    [handleApiError(s, message, f.h) EXCEPT !.appState = "SETUP"]

\* The call the pipeline is waiting for throws.
FinalizationFailed(f, message) ==
    /\ f \in pipelines
    /\ message \in CallErrors(f.finalTranscript)
    /\ pipelines' = pipelines \ {f}
    /\ failedSessions' = failedSessions \cup {[id |-> f.id, pc |-> f.pc]}
    /\ Commit(FinalizationCaught(Cur, f, message))
    /\ UNCHANGED <<apiKey, registeredClasses, isViewingSavedSummary, subjectFailures, startAlerts, audioSent, pendingStarts, pendingKeyChecks, keySelects,
                   subjectCalls, inflight, samples>>

handleDiscardSession ==
    /\ Rendered(Cur, "SUMMARY")
    /\ Commit([Cur EXCEPT !.appState = "SETUP"])
    /\ UNCHANGED <<apiKey, registeredClasses, isViewingSavedSummary, subjectFailures, startAlerts, audioSent, pendingStarts, pendingKeyChecks, keySelects, pipelines,
                   failedSessions, subjectCalls, inflight, samples>>

\* ------------------------------------------------------------------ classes
\* String.prototype.toLowerCase on the class names that occur.
toLowerCase(name) ==
    CASE name \in {"Bio", "BIO", "bio"} -> "bio"
      [] name \in {"Physics", "physics"} -> "physics"
      [] name = "Quick Record" -> "quick record"
      [] name = "Untitled Recording" -> "untitled recording"
      [] OTHER -> name

\* The names the user types into the new-class field.
NewClassNames == {"BIO", "physics"}

\* handleAddClass with a name that is not blank (a blank one only alerts).
\* The id is Date.now() of the click, and so a new one.
handleAddClass(newClassName) ==
    /\ Rendered(Cur, "SETUP")
    /\ Len(registeredClasses) < MaxClasses
    /\ registeredClasses' = Append(registeredClasses,
                                   [id |-> Len(registeredClasses) + 1,
                                    name |-> newClassName, sessions |-> <<>>])
    /\ Commit(Cur)
    /\ UNCHANGED <<apiKey, isViewingSavedSummary, subjectFailures, startAlerts, audioSent,
                   pendingStarts, pendingKeyChecks, keySelects, pipelines,
                   failedSessions, subjectCalls, inflight, samples>>

\* Array.prototype.find: the index of the first class whose name matches
\* ignoring case, 0 for none.
FindClass(classes, targetClassName) ==
    LET matches == {i \in DOMAIN classes :
                       toLowerCase(classes[i].name) = toLowerCase(targetClassName)}
    IN  IF matches = {} THEN 0
        ELSE CHOOSE i \in matches : \A j \in matches : i <= j

\* Variant: the session is stored under the class name it came with.
UpdatedClassesKeepName(classes, sessionToSave) ==
    LET k == FindClass(classes, sessionToSave.className)
    IN  IF k # 0
        THEN [i \in DOMAIN classes |->
                IF classes[i].id = classes[k].id
                THEN [classes[i] EXCEPT !.sessions = Append(@, sessionToSave)]
                ELSE classes[i]]
        ELSE Append(classes, [id |-> Len(classes) + 1,
                              name |-> sessionToSave.className,
                              sessions |-> <<sessionToSave>>])

\* updatedClasses of handleSaveSession for a session that has a class name.
UpdatedClasses(classes, sessionToSave) ==
    LET k == FindClass(classes, sessionToSave.className)
    IN  IF k # 0
        THEN [i \in DOMAIN classes |->
                IF classes[i].id = classes[k].id
                THEN [classes[i] EXCEPT
                        !.sessions = Append(@, [sessionToSave EXCEPT
                                                  !.className = classes[i].name])]
                ELSE classes[i]]
        ELSE Append(classes, [id |-> Len(classes) + 1,
                              name |-> sessionToSave.className,
                              sessions |-> <<sessionToSave>>])

\* The Save button of the summary of a session that is not a saved one.
handleSaveSession ==
    /\ Rendered(Cur, "SUMMARY")
    /\ ~isViewingSavedSummary
    /\ registeredClasses' = IF sessionData.className = "" THEN registeredClasses
                            ELSE UpdatedClasses(registeredClasses, sessionData)
    /\ Len(registeredClasses') <= MaxClasses
    /\ Commit([Cur EXCEPT !.appState = "SETUP"])
    /\ UNCHANGED <<apiKey, isViewingSavedSummary, subjectFailures, startAlerts, audioSent,
                   pendingStarts, pendingKeyChecks, keySelects, pipelines,
                   failedSessions, subjectCalls, inflight, samples>>

\* A saved session is clicked in the list of its class.
viewSavedSession(i, j) ==
    /\ Rendered(Cur, "SETUP")
    /\ i \in DOMAIN registeredClasses
    /\ j \in DOMAIN registeredClasses[i].sessions
    /\ isViewingSavedSummary' = TRUE
    /\ Commit([Cur EXCEPT !.sessionData = registeredClasses[i].sessions[j],
                          !.appState = "SUMMARY"])
    /\ UNCHANGED <<apiKey, registeredClasses, subjectFailures, startAlerts, audioSent,
                   pendingStarts, pendingKeyChecks, keySelects, pipelines,
                   failedSessions, subjectCalls, inflight, samples>>

\* ------------------------------------------------------------------ subject
\* Variant: a tick that does not test the in-flight flag.
SubjectDetectionTickNoFlag ==
    /\ subjectDetectionTimer
    /\ sessionStateRef.subject = ""
    /\ Len(subjectCalls) < MaxSubjectCalls
    /\ StrLen(sessionStateRef.fullTranscript) > 200
    /\ subjectCalls' = Append(subjectCalls, [text |-> sessionStateRef.fullTranscript,
                                             h |-> Handler(Cur),
                                             id |-> sessionData.id])
    /\ Commit([Cur EXCEPT !.isSubjectLoading = TRUE])
    /\ UNCHANGED <<apiKey, registeredClasses, isViewingSavedSummary, subjectFailures, startAlerts, audioSent, pendingStarts, pendingKeyChecks, keySelects, pipelines,
                   failedSessions, inflight, samples>>

\* A tick of the subject-detection interval that passes the guard of
\* processTranscriptPeriodically (a tick that does not changes nothing).
SubjectDetectionTick ==
    /\ subjectDetectionTimer
    /\ sessionStateRef.subject = ""
    /\ ~isSubjectLoading
    /\ Len(subjectCalls) < MaxSubjectCalls
    /\ StrLen(sessionStateRef.fullTranscript) > 200
    /\ subjectCalls' = Append(subjectCalls, [text |-> sessionStateRef.fullTranscript,
                                             h |-> Handler(Cur),
                                             id |-> sessionData.id])
    /\ Commit([Cur EXCEPT !.isSubjectLoading = TRUE])
    /\ UNCHANGED <<apiKey, registeredClasses, isViewingSavedSummary, subjectFailures, startAlerts, audioSent, pendingStarts, pendingKeyChecks, keySelects, pipelines,
                   failedSessions, inflight, samples>>

SubjectIdentified(i, subj) ==
    /\ i \in DOMAIN subjectCalls
    /\ subj \in CallResults(subjectCalls[i].text, "Unknown", IdentifiedSubjects)
    /\ subjectCalls' = RemoveAt(subjectCalls, i)
    /\ Commit([Cur EXCEPT !.subject = subj, !.isSubjectLoading = FALSE])
    /\ UNCHANGED <<apiKey, registeredClasses, isViewingSavedSummary, subjectFailures, startAlerts, audioSent, pendingStarts, pendingKeyChecks, keySelects, pipelines,
                   failedSessions, inflight, samples>>

\* Variant: the failure leaves the in-flight flag set.
SubjectDetectionFailedKeepsFlag(i, message) ==
    /\ i \in DOMAIN subjectCalls
    /\ message \in CallErrors(subjectCalls[i].text)
    /\ subjectFailures < MaxSubjectFailures
    /\ subjectCalls' = RemoveAt(subjectCalls, i)
    /\ subjectFailures' = subjectFailures + 1
    /\ Commit(handleApiError(Cur, message, subjectCalls[i].h))
    /\ UNCHANGED <<apiKey, registeredClasses, isViewingSavedSummary, startAlerts, audioSent, pendingStarts, pendingKeyChecks, keySelects, pipelines,
                   failedSessions, inflight, samples>>

\* identifySubject threw: the catch and the finally of
\* processTranscriptPeriodically.
SubjectDetectionFailed(i, message) ==
    /\ i \in DOMAIN subjectCalls
    /\ message \in CallErrors(subjectCalls[i].text)
    /\ subjectFailures < MaxSubjectFailures
    /\ subjectCalls' = RemoveAt(subjectCalls, i)
    /\ subjectFailures' = subjectFailures + 1
    /\ Commit([handleApiError(Cur, message, subjectCalls[i].h) EXCEPT
                 !.isSubjectLoading = FALSE])
    /\ UNCHANGED <<apiKey, registeredClasses, isViewingSavedSummary, startAlerts, audioSent, pendingStarts, pendingKeyChecks, keySelects, pipelines,
                   failedSessions, inflight, samples>>

\* ------------------------------------------------------------------ sampler
\* The warm-up timeout runs: analysisIntervalRef.current = setInterval(analyzeFrame, 2000).
\* Timeouts of equal delay run in the order they were set.
WarmupTimeout ==
    /\ warmups # <<>>
    /\ LET fn == Head(warmups)
           id == nIntervals + 1
       IN  Commit([Cur EXCEPT !.warmups = Tail(@),
                              !.nIntervals = id,
                              !.intervals = @ \cup {[id |-> id, fn |-> fn]},
                              !.trackers[fn.inst].analysisIntervalRef = id])
    /\ UNCHANGED <<apiKey, registeredClasses, isViewingSavedSummary, subjectFailures, startAlerts, audioSent, pendingStarts, pendingKeyChecks, keySelects, pipelines,
                   failedSessions, subjectCalls, inflight, samples>>

\* An interval fires analyzeFrame and a frame is captured and sent.  A tick of
\* an unmounted instance (videoRef.current is null) or of a video that is not
\* ready returns at once and changes nothing.
AnalysisTick(iv) ==
    /\ iv \in intervals
    /\ iv.fn.inst = trackerMounted
    /\ samples < MaxSamples
    /\ Len(inflight) < MaxInflight
    /\ samples' = samples + 1
    /\ inflight' = Append(inflight, iv.fn)
    /\ Commit(Cur)
    /\ UNCHANGED <<apiKey, registeredClasses, isViewingSavedSummary, subjectFailures, startAlerts, audioSent, pendingStarts, pendingKeyChecks, keySelects, pipelines,
                   failedSessions, subjectCalls>>

handleLowFocus(s, timestamp, score) ==
    [s EXCEPT !.lowFocusTimestamps = Append(@, timestamp)]

sendFocusAlertToTeacher(s, className) == [s EXCEPT !.teacherAlerts = @ + 1]

\* Variant: onLowFocus on every low sample, no teacher notification.
StreakLevelTriggered(s, inst, timestamp, score, className) ==
    LET t == s.trackers[inst]
        k == Len(t.scoreLog) + 1
        s0 == [s EXCEPT !.trackers[inst].scoreLog = Append(@, score)]
    IN  IF score < 60
        THEN [handleLowFocus(s0, timestamp, score) EXCEPT
                !.trackers[inst].lowFocusCounter = @ + 1,
                !.trackers[inst].lowFocusLog = Append(@, k)]
        ELSE [s0 EXCEPT !.trackers[inst].lowFocusCounter = 0,
                        !.trackers[inst].teacherAlertSent = FALSE]

\* Variant: the teacher is notified on every score of 0.
StreakAlertEveryZero(s, inst, timestamp, score, className) ==
    LET t == s.trackers[inst]
        k == Len(t.scoreLog) + 1
        s0 == [s EXCEPT !.trackers[inst].scoreLog = Append(@, score)]
    IN  IF score < 60
        THEN LET s1 == [s0 EXCEPT !.trackers[inst].lowFocusCounter = @ + 1]
                 s2 == IF t.lowFocusCounter + 1 = 1
                       THEN [handleLowFocus(s1, timestamp, score) EXCEPT
                               !.trackers[inst].lowFocusLog = Append(@, k)]
                       ELSE s1
             IN  IF score = 0
                 THEN [sendFocusAlertToTeacher(s2, className) EXCEPT
                         !.trackers[inst].teacherAlertSent = TRUE,
                         !.trackers[inst].alertLog = Append(@, k)]
                 ELSE s2
        ELSE [s0 EXCEPT !.trackers[inst].lowFocusCounter = 0,
                        !.trackers[inst].teacherAlertSent = FALSE]

\* The streak logic of analyzeFrame on the refs of instance inst; scoreLog,
\* lowFocusLog and alertLog record what the instance processed and did.
Streak(s, inst, timestamp, score, className) ==
    LET t == s.trackers[inst]
        k == Len(t.scoreLog) + 1
        s0 == [s EXCEPT !.trackers[inst].scoreLog = Append(@, score)]
    IN  IF score < 60
        THEN LET s1 == [s0 EXCEPT !.trackers[inst].lowFocusCounter = @ + 1]
                 s2 == IF t.lowFocusCounter + 1 = 1
                       THEN [handleLowFocus(s1, timestamp, score) EXCEPT
                               !.trackers[inst].lowFocusLog = Append(@, k)]
                       ELSE s1
             IN  IF score = 0 /\ ~t.teacherAlertSent
                 THEN [sendFocusAlertToTeacher(s2, className) EXCEPT
                         !.trackers[inst].teacherAlertSent = TRUE,
                         !.trackers[inst].alertLog = Append(@, k)]
                 ELSE s2
        ELSE [s0 EXCEPT !.trackers[inst].lowFocusCounter = 0,
                        !.trackers[inst].teacherAlertSent = FALSE]

\* analyzeFocus returned: the rest of analyzeFrame's try block.
FrameAnalyzed(i, score) ==
    /\ i \in DOMAIN inflight
    /\ apiKey
    /\ inflight' = RemoveAt(inflight, i)
    /\ LET fn == inflight[i]
           timestamp == now + 1
           s1 == [Cur EXCEPT !.now = timestamp,
                             !.focusHistory = Append(@, [timestamp |-> timestamp,
                                                         score |-> score])]
       IN  Commit(Streak(s1, fn.inst, timestamp, score, fn.className))
    /\ UNCHANGED <<apiKey, registeredClasses, isViewingSavedSummary, subjectFailures, startAlerts, audioSent, pendingStarts, pendingKeyChecks, keySelects, pipelines,
                   failedSessions, subjectCalls, samples>>

\* analyzeFocus threw: the catch block of analyzeFrame.
FrameAnalysisFailed(i, message) ==
    /\ i \in DOMAIN inflight
    /\ message \in (IF apiKey THEN ProviderErrors ELSE {MsgKeyNotSetService})
    /\ inflight' = RemoveAt(inflight, i)
    /\ Commit(handleApiError(Cur, message, inflight[i].h))
    /\ UNCHANGED <<apiKey, registeredClasses, isViewingSavedSummary, subjectFailures, startAlerts, audioSent, pendingStarts, pendingKeyChecks, keySelects, pipelines,
                   failedSessions, subjectCalls, samples>>

\* ------------------------------------------------------------------ Next
\* One session per behaviour, started by one click.
NoSessionYet == pendingStarts = <<>> /\ streamStops = <<>>

\* The orchestrator: every operation, with coarse inputs (whole words as
\* transcription parts, two scores, few frames).
Next ==
    \/ \E hasKey \in {"true", "false"} : CheckApiKey(hasKey)
    \/ handleSelectKey
    \/ startSession /\ NoSessionYet
    \/ startQuickSession /\ NoSessionYet
    \/ \E i \in 1..MaxPendingStarts : GetUserMediaResolved(i)
    \/ \E i \in 1..MaxPendingStarts : GetUserMediaRejected(i)
    \/ \E c \in 1..MaxSessions : LiveOpened(c)
    \/ \E c \in 1..MaxSessions, m \in ProviderErrors : LiveConnectRejected(c, m)
    \/ \E c \in 1..MaxSessions, tc \in BOOLEAN :
           /\ LiveMessage(c, <<"W">>, tc)
           /\ Len(conns'[c].cur) <= CoarseTurnLen
           /\ Len(fullTranscript') <= CoarseTranscriptLen
           /\ pendingClears' <= CoarseClears
    \/ InterimClearTimeout
    \/ \E c \in 1..MaxSessions : LiveError(c)
    \/ endSession
    \/ \E f \in pipelines, name \in GeneratedClassNames : ClassNameGenerated(f, name)
    \/ \E f \in pipelines, subj \in IdentifiedSubjects : FinalSubjectIdentified(f, subj)
    \/ \E f \in pipelines : NotesStructured(f)
    \/ \E f \in pipelines : SummaryGenerated(f)
    \/ \E f \in pipelines, m \in ProviderErrors \cup {MsgKeyNotSetService} :
           FinalizationFailed(f, m)
    \/ handleDiscardSession
    \/ SubjectDetectionTick
    \/ \E i \in 1..MaxSubjectCalls, subj \in IdentifiedSubjects : SubjectIdentified(i, subj)
    \/ \E i \in 1..MaxSubjectCalls, m \in ProviderErrors : SubjectDetectionFailed(i, m)
    \/ WarmupTimeout
    \/ \E iv \in intervals : AnalysisTick(iv) /\ samples' <= CoarseSamples
    \/ \E i \in 1..MaxInflight, score \in {0, 80} : FrameAnalyzed(i, score)
    \/ \E i \in 1..MaxInflight, m \in ProviderErrors \cup {MsgKeyNotSetService} :
           FrameAnalysisFailed(i, m)

Spec == Init /\ [][Next]_vars

\* The transcription channel of one session, with every transcription part.
TranscriptNext ==
    \/ CheckApiKey("true")
    \/ startSession /\ NoSessionYet
    \/ GetUserMediaResolved(1)
    \/ LiveOpened(1)
    \/ \E part \in TextParts, tc \in BOOLEAN : LiveMessage(1, part, tc)
    \/ InterimClearTimeout
    \/ endSession
    \/ \E f \in pipelines : NotesStructured(f)
    \/ \E f \in pipelines : SummaryGenerated(f)

TranscriptSpec == Init /\ [][TranscriptNext]_vars

\* The vision sampler of one session, with every score.
SamplerNext ==
    \/ CheckApiKey("true")
    \/ startSession /\ NoSessionYet
    \/ GetUserMediaResolved(1)
    \/ WarmupTimeout
    \/ \E iv \in intervals : AnalysisTick(iv)
    \/ \E i \in 1..MaxInflight, score \in Scores : FrameAnalyzed(i, score)
    \/ \E i \in 1..MaxInflight, m \in ProviderErrors \cup {MsgKeyNotSetService} :
           FrameAnalysisFailed(i, m)
    \/ endSession

SamplerSpec == Init /\ [][SamplerNext]_vars

\* Starts requested again before the first getUserMedia has resolved.
StartNext ==
    \/ CheckApiKey("true")
    \/ startSession
    \/ startQuickSession
    \/ \E i \in 1..MaxPendingStarts : GetUserMediaResolved(i)
    \/ \E i \in 1..MaxPendingStarts : GetUserMediaRejected(i)
    \/ \E c \in 1..MaxSessions : LiveOpened(c)
    \/ \E c \in 1..MaxSessions : LiveMessage(c, <<"W">>, TRUE)
    \/ InterimClearTimeout
    \/ WarmupTimeout
    \/ \E iv \in intervals : AnalysisTick(iv) /\ samples' <= CoarseSamples
    \/ \E i \in 1..MaxInflight : FrameAnalyzed(i, 40)
    \/ endSession

StartSpec == Init /\ [][StartNext]_vars

\* Two sessions one after the other: the first is ended, summarised and
\* discarded while its calls are still in flight, then the second is started.
RestartNext ==
    \/ CheckApiKey("true")
    \/ startSession /\ pendingStarts = <<>>
    \/ GetUserMediaResolved(1)
    \/ \E c \in 1..MaxSessions : LiveOpened(c)
    \/ \E c \in 1..MaxSessions :
           /\ LiveMessage(c, <<"W">>, TRUE)
           /\ Len(fullTranscript') <= CoarseTranscriptLen
           /\ pendingClears' <= CoarseClears
    \/ InterimClearTimeout
    \/ SubjectDetectionTick
    \/ \E i \in 1..MaxSubjectCalls, subj \in IdentifiedSubjects : SubjectIdentified(i, subj)
    \/ \E i \in 1..MaxSubjectCalls, m \in ProviderErrors : SubjectDetectionFailed(i, m)
    \/ WarmupTimeout
    \/ \E iv \in intervals : AnalysisTick(iv) /\ samples' <= CoarseSamples
    \/ \E i \in 1..MaxInflight : FrameAnalyzed(i, 40)
    \/ endSession
    \/ \E f \in pipelines : NotesStructured(f)
    \/ \E f \in pipelines : SummaryGenerated(f)
    \/ handleDiscardSession

RestartSpec == Init /\ [][RestartNext]_vars

\* The audio path of one session, with every block.
AudioNext ==
    \/ CheckApiKey("true")
    \/ startSession /\ NoSessionYet
    \/ GetUserMediaResolved(1)
    \/ LiveOpened(1)
    \/ \E inputData \in Blocks : AudioProcess(1, inputData)
    \/ endSession

AudioSpec == Init /\ [][AudioNext]_vars

\* The transcription parts of the finalization scenario: texts of 1 and of 50
\* characters, and whitespace.
QuickParts == {<<"a">>, <<"L">>, <<" ">>}

\* The finalization of one session, started for a class or as a Quick Record,
\* with transcripts around the threshold of the class-name generation.
QuickNext ==
    \/ CheckApiKey("true")
    \/ startSession /\ NoSessionYet
    \/ startQuickSession /\ NoSessionYet
    \/ GetUserMediaResolved(1)
    \/ LiveOpened(1)
    \/ \E part \in QuickParts, tc \in BOOLEAN :
           /\ LiveMessage(1, part, tc)
           /\ pendingClears' <= CoarseClears
    \/ InterimClearTimeout
    \/ endSession
    \/ \E f \in pipelines, name \in GeneratedClassNames : ClassNameGenerated(f, name)
    \/ \E f \in pipelines, subj \in IdentifiedSubjects : FinalSubjectIdentified(f, subj)
    \/ \E f \in pipelines : NotesStructured(f)
    \/ \E f \in pipelines : SummaryGenerated(f)
    \/ \E f \in pipelines, m \in ProviderErrors \cup {MsgKeyNotSetService} :
           FinalizationFailed(f, m)
    \/ handleDiscardSession

QuickSpec == Init /\ [][QuickNext]_vars

\* The call a pipeline awaits returns or throws.
PipelineStep ==
    \E f \in pipelines :
        \/ \E name \in GeneratedClassNames : ClassNameGenerated(f, name)
        \/ \E subj \in IdentifiedSubjects : FinalSubjectIdentified(f, subj)
        \/ NotesStructured(f)
        \/ SummaryGenerated(f)
        \/ \E m \in ProviderErrors \cup {MsgKeyNotSetService} : FinalizationFailed(f, m)

\* One session with whole words as its transcript, and its finalization.
LoadingNext ==
    \/ CheckApiKey("true")
    \/ startSession /\ NoSessionYet
    \/ startQuickSession /\ NoSessionYet
    \/ GetUserMediaResolved(1)
    \/ LiveOpened(1)
    \/ /\ LiveMessage(1, <<"W">>, TRUE)
       /\ Len(fullTranscript') <= CoarseTranscriptLen
       /\ pendingClears' <= CoarseClears
    \/ InterimClearTimeout
    \/ endSession
    \/ PipelineStep
    \/ handleDiscardSession

\* That scenario when every generative call that is awaited eventually
\* returns or fails.
LoadingSpec == Init /\ [][LoadingNext]_vars /\ WF_vars(PipelineStep)

\* The class library: classes are added, sessions are recorded one after the
\* other, saved or discarded, and saved sessions are viewed.
LibraryNext ==
    \/ CheckApiKey("true")
    \/ \E name \in NewClassNames : handleAddClass(name)
    \/ startSession /\ pendingStarts = <<>>
    \/ startQuickSession /\ pendingStarts = <<>>
    \/ GetUserMediaResolved(1)
    \/ \E c \in 1..MaxSessions : LiveOpened(c)
    \/ \E c \in 1..MaxSessions :
           /\ LiveMessage(c, <<"W">>, TRUE)
           /\ Len(fullTranscript') <= CoarseTurnLen + 1
           /\ pendingClears' <= CoarseClears
    \/ InterimClearTimeout
    \/ endSession
    \/ PipelineStep
    \/ handleSaveSession
    \/ handleDiscardSession
    \/ \E i \in 1..MaxClasses, j \in 1..MaxSessions : viewSavedSession(i, j)

LibrarySpec == Init /\ [][LibraryNext]_vars

\* The focus sampler over two sessions recorded one after the other.
FocusRestartNext ==
    \/ CheckApiKey("true")
    \/ startSession /\ pendingStarts = <<>>
    \/ GetUserMediaResolved(1)
    \/ WarmupTimeout
    \/ \E iv \in intervals : AnalysisTick(iv) /\ samples' <= RestartSamples
    \/ \E i \in 1..MaxInflight, score \in {40, 80} : FrameAnalyzed(i, score)
    \/ endSession
    \/ PipelineStep
    \/ handleDiscardSession

FocusRestartSpec == Init /\ [][FocusRestartNext]_vars

\* ------------------------------------------------------------------ C1
TurnCompleted == \E part \in TextParts : LiveMessage(1, part, TRUE)

InterimReceived == \E part \in TextParts : LiveMessage(1, part, FALSE)

\* C1 as stated: whenever a turn completes, the committed transcript grows by
\* the last interim text, trimmed, plus one trailing space.
C1_EveryTurnAppended ==
    [][TurnCompleted =>
         fullTranscript' = fullTranscript \o Trim(interimTranscript') \o <<" ">>]_vars

\* C1 amended: interim events carry the cumulative text of the turn and replace
\* the interim text without touching the committed transcript; when the turn
\* completes the committed transcript grows, once, by the last interim text
\* trimmed plus one space if that text is not blank, and is unchanged if it is
\* blank; no other step of the session appends to it.
C1_InterimReplacement ==
    [][/\ InterimReceived =>
            /\ fullTranscript' = fullTranscript
            /\ interimTranscript' = conns'[1].cur
            /\ Len(interimTranscript') = Len(conns[1].cur) + 1
            /\ SubSeq(interimTranscript', 1, Len(conns[1].cur)) = conns[1].cur
       /\ TurnCompleted =>
            /\ conns'[1].cur = <<>>
            /\ fullTranscript' =
                 IF Trim(interimTranscript') = <<>> THEN fullTranscript
                 ELSE fullTranscript \o Trim(interimTranscript') \o <<" ">>
       /\ (~TurnCompleted /\ appState = "ACTIVE") => fullTranscript' = fullTranscript
      ]_vars

\* A turn of three interim events ("a", "a ", "a W") has completed.
C1_Witness ==
    /\ fullTranscript = <<"a", " ", "W", " ">>
    /\ interimTranscript = <<"a", " ", "W">>
    /\ pendingClears = 1

\* ------------------------------------------------------------------ C2
\* The words of a text: the text with every run of whitespace squeezed to one
\* space and trimmed.
RECURSIVE Squeeze(_)
Squeeze(s) ==
    LET t == TrimStart(s)
    IN  IF t = <<>> THEN <<>>
        ELSE IF Len(t) >= 2 /\ t[2] = " "
             THEN IF TrimStart(Tail(t)) = <<>> THEN <<Head(t)>>
                  ELSE <<Head(t), " ">> \o Squeeze(Tail(t))
             ELSE <<Head(t)>> \o Squeeze(Tail(t))

\* C2: endSession invoked while the turn in progress has text stores, up to
\* whitespace, the committed transcript followed by that turn's text.
C2_NoDataLossOnAbruptEnd ==
    [][(endSession /\ sessionRef = 1 /\ conns[1].cur # <<>>) =>
         \A f \in pipelines' :
             Squeeze(f.data.fullTranscript) =
                 Squeeze(fullTranscript \o <<" ">> \o conns[1].cur)]_vars

\* ------------------------------------------------------------------ C3
\* The first samples of the maximal runs of scores below 60.
LowRunStarts(log) ==
    {k \in DOMAIN log : log[k] < 60 /\ (k = 1 \/ log[k - 1] >= 60)}

Range(seq) == {seq[i] : i \in DOMAIN seq}

Ascending(seq) == \A i, j \in DOMAIN seq : i < j => seq[i] < seq[j]

\* C3: for the scores a sampler has classified so far, onLowFocus has fired
\* exactly once per maximal run of scores below 60, on the first sample of the
\* run, and the orchestrator has recorded exactly those samples' timestamps.
C3_StreakEdgeTriggering ==
    \A inst \in DOMAIN trackers :
        LET t == trackers[inst]
        IN  /\ Ascending(t.lowFocusLog)
            /\ Range(t.lowFocusLog) = LowRunStarts(t.scoreLog)
            /\ Len(focusHistory) = Len(t.scoreLog)
            /\ lowFocusTimestamps =
                 [k \in DOMAIN t.lowFocusLog |-> focusHistory[t.lowFocusLog[k]].timestamp]

\* The scores 80, 40, 30, 70, 20 have been classified: two notifications, at
\* the second and the fifth sample.
C3_Witness ==
    \E inst \in DOMAIN trackers :
        /\ trackers[inst].scoreLog = <<80, 40, 30, 70, 20>>
        /\ trackers[inst].lowFocusLog = <<2, 5>>
        /\ Len(lowFocusTimestamps) = 2

\* ------------------------------------------------------------------ C4
\* The first score equal to 0 of each maximal run of scores below 60.
FirstZeros(log) ==
    {k \in DOMAIN log :
        /\ log[k] = 0
        /\ \A j \in 1..(k - 1) : log[j] = 0 => \E m \in (j + 1)..(k - 1) : log[m] >= 60}

RECURSIVE AlertsLogged(_)
AlertsLogged(ts) ==
    IF ts = <<>> THEN 0 ELSE Len(Head(ts).alertLog) + AlertsLogged(Tail(ts))

\* C4: for the scores a sampler has classified so far, the teacher
\* notification has been sent exactly at the first 0 of each low-focus streak,
\* so at most once per streak, and a score of 60 or more re-arms it.
C4_TeacherAlertSingleFire ==
    /\ \A inst \in DOMAIN trackers :
          LET t == trackers[inst]
          IN  /\ Ascending(t.alertLog)
              /\ Range(t.alertLog) = FirstZeros(t.scoreLog)
              /\ t.teacherAlertSent =
                   (\E k \in Range(t.alertLog) :
                        \A m \in k..Len(t.scoreLog) : t.scoreLog[m] < 60)
    /\ teacherAlerts = AlertsLogged(trackers)

\* The scores 0, 0, 0, 80, 0 have been classified: two notifications sent.
C4_Witness ==
    \E inst \in DOMAIN trackers :
        /\ trackers[inst].scoreLog = <<0, 0, 0, 80, 0>>
        /\ trackers[inst].alertLog = <<1, 5>>
        /\ teacherAlerts = 2

\* ------------------------------------------------------------------ C5
\* C5: a session whose finalization failed, at whatever step, is never shown
\* as a summary and its record never holds notes or a summary; the failure
\* itself leaves the orchestrator in SETUP.
C5_FinalizationAtomicity ==
    \A x \in failedSessions :
        sessionData.id = x.id =>
            /\ appState = "SETUP"
            /\ sessionData.keys \cap {"notes", "summary"} = {}
            /\ sessionData.notes = "" /\ sessionData.summary = ""

\* Summary generation failed after notes generation had succeeded.
C5_Witness ==
    /\ \E x \in failedSessions : x.id = sessionData.id /\ x.pc = "summary"
    /\ appState = "SETUP"
    /\ pipelines = {}

\* ------------------------------------------------------------------ C6
\* C6: without a configured API key no start gets as far as requesting or
\* acquiring a media device, and the orchestrator stays in SETUP.
C6_CredentialGateShortCircuit ==
    ~apiKey => /\ pendingStarts = <<>>
               /\ streamStops = <<>>
               /\ mediaStreamRef = 0
               /\ appState = "SETUP"

\* ------------------------------------------------------------------ C7
TransportError == \E c \in 1..MaxSessions : LiveError(c)

\* C7: when the channel's onerror fires during an ACTIVE session the channel
\* is torn down and the session is force-stopped.
C7_TransportErrorIsFatal ==
    [][(TransportError /\ appState = "ACTIVE") =>
         /\ isListening' = FALSE
         /\ audioContextRef' = 0 /\ scriptProcessorRef' = 0 /\ sessionRef' = 0
         /\ \A c \in DOMAIN conns' : ~conns'[c].graph
         /\ appState' = "SETUP"]_vars

\* ------------------------------------------------------------------ C8
AuthMessages == {m \in ProviderErrors : IsAuthError(m)}

\* A collaborator reports an error the handler recognises.
AuthErrorReported ==
    \E m \in AuthMessages :
        \/ \E i \in 1..MaxInflight : FrameAnalysisFailed(i, m)
        \/ \E i \in 1..MaxSubjectCalls : SubjectDetectionFailed(i, m)
        \/ \E f \in pipelines : FinalizationFailed(f, m)
        \/ \E c \in 1..MaxSessions : LiveConnectRejected(c, m)

PipelineIds(ps) == {f.id : f \in ps}

\* C8: when a collaborator reports a recognised authentication error the
\* credential flag becomes invalid and, if a session is ACTIVE, transcription
\* is stopped, the stream's tracks are stopped and the state becomes SETUP
\* without a finalization being started; a finalization is only ever started
\* for the session that is ACTIVE, and a state that became ACTIVE is a new
\* session, so none is issued for the stopped session later either.
C8_AuthErrorForcesStop ==
    [][/\ AuthErrorReported =>
            /\ isApiKeySelected' = "false"
            /\ appState = "ACTIVE" =>
                  /\ isListening' = FALSE
                  /\ sessionRef' = 0 /\ audioContextRef' = 0 /\ scriptProcessorRef' = 0
                  /\ \A c \in DOMAIN conns' : ~conns'[c].graph
                  /\ mediaStreamRef' = 0
                  /\ \A st \in DOMAIN streamStops : streamStops'[st] > 0
                  /\ appState' = "SETUP"
                  /\ PipelineIds(pipelines') \subseteq PipelineIds(pipelines)
       /\ PipelineIds(pipelines') \subseteq PipelineIds(pipelines) \cup
              (IF appState = "ACTIVE" /\ isApiKeySelected = "true"
               THEN {sessionData.id} ELSE {})
       /\ (appState' = "ACTIVE" /\ appState # "ACTIVE") =>
              /\ Len(streamStops') = Len(streamStops) + 1
              /\ sessionData'.id = Len(streamStops')
      ]_vars

\* An ACTIVE session that was listening has been force-stopped.
C8_Witness ==
    /\ isApiKeySelected = "false"
    /\ appState = "SETUP"
    /\ streamStops = <<1>>
    /\ Len(conns) = 1 /\ conns[1].status = "closed"
    /\ ~isListening
    /\ pipelines = {} /\ failedSessions = {}
    /\ "notes" \notin sessionData.keys

\* ------------------------------------------------------------------ C9
OtherMessages ==
    {MsgQuota, MsgKeyNotSetService, MsgKeyNotSetHook, MsgTranscriptionError,
     CouldNotStart(MsgQuota), NoError}

Handlers == [app : {"SETUP", "ACTIVE", "LOADING", "SUMMARY"}, sl : BOOLEAN]

\* A collaborator reports an error the handler does not recognise, through a
\* path that, the handler apart, changes none of the orchestrator's state.
OtherErrorReported ==
    \/ \E m \in {MsgQuota, MsgKeyNotSetService} :
          \/ \E i \in 1..MaxInflight : FrameAnalysisFailed(i, m)
          \/ \E i \in 1..MaxSubjectCalls : SubjectDetectionFailed(i, m)
    \/ \E c \in 1..MaxSessions : LiveConnectRejected(c, MsgQuota)
    \/ \E c \in 1..MaxSessions : LiveError(c)

\* C9: a step that reports an error matching neither pattern leaves the app
\* state, credential flag, listening flag, media stream, transcript, focus
\* history and subject as they were; and the handler, whichever render made
\* it, maps the state of such a step to itself for every such message.
C9_OtherErrorsChangeNothing ==
    [][OtherErrorReported =>
         /\ UNCHANGED <<appState, isApiKeySelected, isListening, mediaStreamRef,
                        streamStops, fullTranscript, interimTranscript,
                        focusHistory, lowFocusTimestamps, subject, sessionData>>
         /\ \E s \in {Cur} :
               \A m \in OtherMessages, h \in Handlers : handleApiError(s, m, h) = s
      ]_vars

\* The classification of the one frame of an ACTIVE, listening session has
\* failed with an error the handler does not recognise.
C9_Witness ==
    /\ samples = 1 /\ inflight = <<>> /\ focusHistory = <<>>
    /\ appState = "ACTIVE"
    /\ isListening
    /\ isApiKeySelected = "true"
    /\ keySelects = 0

\* ------------------------------------------------------------------ C10
\* C10: a start whose getUserMedia resolves while a session is already ACTIVE
\* acquires no stream, resets nothing and opens no channel.
C10_StartWhileActiveIsNoOp ==
    [][((\E i \in 1..MaxPendingStarts : GetUserMediaResolved(i)) /\ appState = "ACTIVE") =>
         UNCHANGED <<mediaStreamRef, streamStops, sessionData, fullTranscript,
                     interimTranscript, focusHistory, lowFocusTimestamps, conns>>]_vars

\* ------------------------------------------------------------------ C11
\* The connections that are being opened or are open.
LiveConns == {c \in DOMAIN conns : conns[c].status \in {"opening", "open"}}

\* C11: at most one transcription connection and at most one analysis
\* interval are live.
C11_AtMostOneChannelAndSampler ==
    /\ Cardinality(LiveConns) <= 1
    /\ Cardinality(intervals) <= 1

\* ------------------------------------------------------------------ C12
\* C12: while the orchestrator is not ACTIVE no audio graph forwards frames,
\* no analysis interval is armed and the subject-detection timer is not armed.
C12_NoActivityOutsideActive ==
    appState # "ACTIVE" =>
        /\ \A c \in DOMAIN conns : ~conns[c].graph
        /\ intervals = {}
        /\ ~subjectDetectionTimer

\* ------------------------------------------------------------------ C13
\* C13: no stream's tracks are stopped twice, and while the orchestrator is
\* not ACTIVE every stream acquired so far has had its tracks stopped.
C13_StreamsReleasedExactlyOnce ==
    \A st \in DOMAIN streamStops :
        /\ streamStops[st] <= 1
        /\ appState # "ACTIVE" => streamStops[st] = 1

\* ------------------------------------------------------------------ C14
\* C14: from every reachable state, for the stopListening of every render,
\* the media release and the sampler's cleanup: invoking one a second time
\* changes nothing, after a stopListening that ran no other stopListening
\* changes anything, the channel's close and the media release commute, and
\* however often they are invoked no stream is stopped more than once more.
C14_IdempotentTeardown ==
    \E s \in {Cur} :
        /\ \A il \in BOOLEAN :
              /\ stopListening(stopListening(s, il), il) = stopListening(s, il)
              /\ stopListening(stopListening(s, TRUE), il) = stopListening(s, TRUE)
              /\ StopTracks(stopListening(s, il)) = stopListening(StopTracks(s), il)
              /\ \E once \in {StopTracks(stopListening(s, il))} :
                    /\ StopTracks(stopListening(once, il)) = once
                    /\ stopListening(StopTracks(once), il) = once
                    /\ \A st \in DOMAIN s.streamStops :
                          once.streamStops[st] <= s.streamStops[st] + 1
        /\ StopTracks(StopTracks(s)) = StopTracks(s)
        /\ \A inst \in DOMAIN s.trackers :
              TrackerCleanup(TrackerCleanup(s, inst), inst) = TrackerCleanup(s, inst)

\* endSession has torn down a session that was listening on an open
\* connection with its audio graph attached.
C14_Witness ==
    /\ appState = "LOADING"
    /\ streamStops = <<1>>
    /\ mediaStreamRef = 0
    /\ Len(conns) = 1
    /\ conns[1].status = "closed" /\ conns[1].ctxClosed /\ ~conns[1].graph
    /\ ~isListening /\ sessionRef = 0

\* ------------------------------------------------------------------ C15
MediaRejected == \E i \in 1..MaxPendingStarts : GetUserMediaRejected(i)

\* C15: when the media acquisition of a start fails, the orchestrator stays
\* in SETUP, the session record, transcript, focus accumulators and subject
\* are not reset, no stream is held and no channel is opened.
C15_DeviceFailureStartsNothing ==
    [][MediaRejected =>
         /\ appState' = "SETUP"
         /\ UNCHANGED <<appState, sessionData, fullTranscript, interimTranscript,
                        focusHistory, lowFocusTimestamps, subject, conns,
                        mediaStreamRef, streamStops, isListening, sessionRef,
                        audioContextRef, scriptProcessorRef, trackerMounted,
                        warmups, intervals>>]_vars

\* The acquisition of the only start requested has failed.
C15_Witness ==
    /\ startAlerts = 1
    /\ pendingStarts = <<>> /\ streamStops = <<>>
    /\ appState = "SETUP" /\ conns = <<>>

\* ------------------------------------------------------------------ C16
\* A classification returns to a sampler instance that is no longer mounted.
StaleFrameAnalyzed ==
    \E i \in 1..MaxInflight :
        /\ i \in DOMAIN inflight
        /\ inflight[i].inst # trackerMounted
        /\ FrameAnalyzed(i, 40)

\* A periodic subject identification returns after its session.
StaleSubjectIdentified ==
    \E i \in 1..MaxSubjectCalls, subj \in IdentifiedSubjects :
        /\ i \in DOMAIN subjectCalls
        /\ (appState # "ACTIVE" \/ subjectCalls[i].id # sessionData.id)
        /\ SubjectIdentified(i, subj)

\* C16: a result that arrives after its session leaves the session record as
\* it is and, if a later session is ACTIVE by then, leaves that session's
\* focus history, low-focus timestamps and subject as they are.
C16_LateResultsDiscarded ==
    [][(StaleFrameAnalyzed \/ StaleSubjectIdentified) =>
         /\ sessionData' = sessionData
         /\ appState = "ACTIVE" =>
               UNCHANGED <<focusHistory, lowFocusTimestamps, subject>>]_vars

\* ------------------------------------------------------------------ C17
\* The bytes of a base64 text.
RECURSIVE atob(_)
atob(d) ==
    IF Len(d) < 4 THEN <<>>
    ELSE LET b1 == d[1] * 4 + d[2] \div 16
             b2 == (d[2] % 16) * 16 + d[3] \div 4
             b3 == (d[3] % 4) * 64 + d[4]
         IN  (IF d[3] = Pad THEN <<b1>>
              ELSE IF d[4] = Pad THEN <<b1, b2>>
              ELSE <<b1, b2, b3>>) \o atob(SubSeq(d, 5, Len(d)))

\* The 16-bit signed little-endian value of two bytes.
Int16At(bytes, i) ==
    LET u == bytes[2 * i - 1] + 256 * bytes[2 * i]
    IN  IF u >= 32768 THEN u - 65536 ELSE u

Abs(x) == IF x < 0 THEN -x ELSE x

\* C17: the blob sent for a block of N samples holds 2N bytes, and each
\* 16-bit value decoded from them (value / 32768) is within one quantization
\* step (1/32768, two sample units) of the sample it encodes.
C17_EncodingRoundTrip ==
    audioSent # <<>> =>
        LET bytes == atob(audioSent.media.data)
            N == Len(audioSent.inputData)
        IN  /\ Len(bytes) = 2 * N
            /\ \A i \in 1..N :
                  Abs(2 * Int16At(bytes, i) - audioSent.inputData[i]) <= 2

\* ------------------------------------------------------------------ C18
AllSessionKeys == {"id", "className", "subject", "startTime", "endTime",
                   "focusHistory", "lowFocusTimestamps", "fullTranscript",
                   "notes", "summary"}

\* The fields of a record that the pipeline never rewrites.
Kept(d) == <<d.id, d.startTime, d.endTime, d.fullTranscript, d.focusHistory,
             d.lowFocusTimestamps>>

\* The way of a record from endSession to the summary screen.  endSession
\* builds it from the session started and the accumulators at that moment;
\* the pipeline keeps it, the class name too unless renaming is allowed and
\* the step is the class-name generation; the step to SUMMARY stores it with
\* notes and summary; and nothing else leads to SUMMARY.
Populated(renaming) ==
    /\ endSession =>
          \A f \in pipelines' \ pipelines :
              /\ Kept(f.data) = <<sessionData.id, sessionData.startTime, now,
                                  Trim(fullTranscript \o <<" ">> \o interimTranscript),
                                  focusHistory, lowFocusTimestamps>>
              /\ f.data.id = Len(streamStops) /\ f.id = f.data.id
              /\ f.data.className = sessionData.className
              /\ f.data.className # ""
              /\ f.data.subject # ""
              /\ f.data.keys = AllSessionKeys \ {"notes", "summary"}
    /\ \A f \in pipelines, g \in pipelines' :
          g.id = f.id =>
              /\ Kept(g.data) = Kept(f.data) /\ g.data.keys = f.data.keys
              /\ g.data.subject # ""
              /\ g.data.className # ""
              /\ (renaming /\ f.pc = "className") \/ g.data.className = f.data.className
    /\ (appState' = "SUMMARY" /\ appState # "SUMMARY") =>
          \E f \in pipelines :
              /\ f.pc = "summary" /\ f \notin pipelines'
              /\ sessionData'.keys = AllSessionKeys
              /\ Kept(sessionData') = Kept(f.data)
              /\ sessionData'.className = f.data.className
              /\ sessionData'.subject = f.data.subject
              /\ sessionData'.notes = f.notes
              /\ sessionData'.summary # ""

\* C18 as stated: the record shown in SUMMARY has the class name of the
\* session that was started.
C18_RecordOfStartedSession == [][Populated(FALSE)]_vars

\* C18 amended: the record shown in SUMMARY is fully populated, with the class
\* name of the session started or, for a Quick Record session whose transcript
\* is longer than 50 characters, the class name generated for it.
C18_FullyPopulated == [][Populated(TRUE)]_vars

\* A Quick Record session is shown in SUMMARY under its generated class name.
C18_Witness ==
    /\ appState = "SUMMARY"
    /\ sessionData.keys = AllSessionKeys
    /\ sessionData.className = "Physics"
    /\ sessionData.fullTranscript # <<>>

\* ------------------------------------------------------------------ C19
\* C19: a failed classification counts as a score of 0 for the streak logic:
\* the low-focus streak of the sampler is incremented and, if the sample
\* starts a streak, the low-focus notification fires.
C19_FailedSampleCountsAsZero ==
    [][\A i \in 1..MaxInflight, m \in ProviderErrors \cup {MsgKeyNotSetService} :
          FrameAnalysisFailed(i, m) =>
             LET inst == inflight[i].inst
             IN  /\ trackers'[inst].lowFocusCounter = trackers[inst].lowFocusCounter + 1
                 /\ trackers[inst].lowFocusCounter = 0 =>
                       Len(lowFocusTimestamps') = Len(lowFocusTimestamps) + 1]_vars

\* ------------------------------------------------------------------ C20
\* C20: the program has no setting that enables the teacher notification, so
\* with the notification off by default no request is ever sent to the
\* external notification service.
C20_TeacherAlertOffByDefault == teacherAlerts = 0

\* ------------------------------------------------------------------ C21
ConnectRejected ==
    \E c \in 1..MaxSessions, m \in ProviderErrors : LiveConnectRejected(c, m)

\* C21: when the connect call rejects, the listening flag is false again, the
\* audio context created for the attempt is closed and released, and the
\* orchestrator is not ACTIVE.
C21_ConnectFailureNotHalfActive ==
    [][ConnectRejected =>
         /\ isListening' = FALSE
         /\ audioContextRef' = 0
         /\ \A c \in DOMAIN conns' : conns'[c].status = "failed" => conns'[c].ctxClosed
         /\ appState' # "ACTIVE"]_vars

\* ------------------------------------------------------------------ C22
\* C22: a connection whose close was invoked while it was being opened (its
\* context is closed and it is still opening) is not open once the connect
\* resolves, has no audio graph attached and is not stored as the session;
\* and no audio block is sent on a connection whose close was invoked.
C22_CloseWhileOpeningStaysClosed ==
    [][\A c \in DOMAIN conns :
          /\ (LiveOpened(c) /\ conns[c].ctxClosed) =>
                /\ conns'[c].status # "open"
                /\ ~conns'[c].graph
                /\ sessionRef' # c
          /\ (\E inputData \in Blocks : AudioProcess(c, inputData)) =>
                ~conns[c].ctxClosed]_vars

\* ------------------------------------------------------------------ C23
\* C23: a tick invokes subject identification only when no subject has been
\* identified, no identification is in flight and the committed transcript is
\* longer than 200 characters; so at most one periodic identification is in
\* flight at any time, the in-flight flag tells whether one is, and none is
\* issued while a subject is set.
C23_SubjectDetectionGuard ==
    [][/\ SubjectDetectionTick =>
            /\ subject = ""
            /\ subjectCalls = <<>>
            /\ StrLen(fullTranscript) > 200
            /\ Len(subjectCalls') = 1
            /\ subjectCalls'[1].text = fullTranscript
       /\ Len(subjectCalls') <= 1
       /\ isSubjectLoading' = (subjectCalls' # <<>>)
       /\ subject # "" => Len(subjectCalls') <= Len(subjectCalls)
      ]_vars

\* An identification is in flight for a session that has no subject yet.
C23_Witness ==
    /\ Len(subjectCalls) = 1
    /\ isSubjectLoading
    /\ appState = "ACTIVE"
    /\ subject = ""
    /\ StrLen(fullTranscript) > 200

\* ------------------------------------------------------------------ C24
\* A periodic identification fails with an error the handler does not
\* recognise.
PeriodicDetectionFailed ==
    \E i \in 1..MaxSubjectCalls, m \in ProviderErrors \ AuthMessages :
        SubjectDetectionFailed(i, m)

\* C24: when a periodic subject identification fails with an error that is not
\* an authentication error, the app state, transcript, focus history and
\* subject are unchanged, the in-flight flag is cleared, and if the timer is
\* armed and the guard conditions hold a tick invokes the identification again.
C24_DetectionFailureIsRetried ==
    [][PeriodicDetectionFailed =>
         /\ UNCHANGED <<appState, fullTranscript, interimTranscript, focusHistory,
                        lowFocusTimestamps, subject, sessionData, isListening,
                        mediaStreamRef, isApiKeySelected>>
         /\ isSubjectLoading' = FALSE
         /\ (subjectDetectionTimer /\ subject = "" /\ StrLen(fullTranscript) > 200) =>
               (ENABLED SubjectDetectionTick)'
      ]_vars

\* After a failed identification the next tick has invoked it again.
C24_Witness ==
    /\ subjectFailures = 1
    /\ Len(subjectCalls) = 1
    /\ isSubjectLoading
    /\ appState = "ACTIVE"
    /\ isApiKeySelected = "true"
    /\ subject = ""

\* ------------------------------------------------------------------ C25
\* The order of the calls of the pipeline: a call may be followed only by a
\* later one.
PipelineOrder == {<<"className", "subject">>, <<"className", "notes">>,
                  <<"subject", "notes">>, <<"notes", "summary">>}

\* C25: the pipeline of a session awaits one call at a time, and the next call
\* is issued by the return of the one before it, in the order class name,
\* subject, notes, summary; a pipeline begins at endSession; after a failure
\* the session has no pipeline any more; and the summary is requested with the
\* subject of the record, which only the subject step of the pipeline changes.
C25_SequentialPipeline ==
    [][/\ \A g \in pipelines' \ pipelines :
             IF g.id \in PipelineIds(pipelines)
             THEN \E f \in pipelines \ pipelines' :
                     /\ f.id = g.id
                     /\ <<f.pc, g.pc>> \in PipelineOrder
                     /\ f.pc # "subject" => g.data.subject = f.data.subject
                     /\ g.pc = "summary" => g.summarySubject = g.data.subject
                     /\ g.pc # "summary" => g.summarySubject = ""
                     /\ \/ \E name \in GeneratedClassNames : ClassNameGenerated(f, name)
                        \/ \E subj \in IdentifiedSubjects : FinalSubjectIdentified(f, subj)
                        \/ NotesStructured(f)
             ELSE /\ endSession
                  /\ g.pc \in {"className", "notes"}
                  /\ g.summarySubject = ""
       /\ \A f, g \in pipelines' : f.id = g.id => f = g
       /\ \A x \in failedSessions' : x.id \notin PipelineIds(pipelines')
       /\ (\E f \in pipelines, m \in ProviderErrors \cup {MsgKeyNotSetService} :
               FinalizationFailed(f, m)) => pipelines' = {}
      ]_vars

\* All four calls were issued: the pipeline of a Quick Record session got its
\* class name and its subject, then the notes, and awaits the summary
\* requested with that subject.
C25_Witness ==
    \E f \in pipelines :
        /\ f.pc = "summary"
        /\ f.finalSubject = ""
        /\ f.data.className = "Physics"
        /\ f.data.subject = "Math"
        /\ f.summarySubject = "Math"
        /\ f.notes = GeneratedNotes

\* ------------------------------------------------------------------ C26
\* C26: the pipeline of a session that ended without a subject (empty,
\* "Unknown" or "Not detected") comes to request the notes, and so the
\* summary, only by the return of a subject identification on the final
\* transcript, whose result is then the subject of the record.
C26_SubjectResolvedAtFinalization ==
    [][\A g \in pipelines' \ pipelines :
          (g.pc = "notes" /\ NeedsSubject(g.finalSubject)) =>
              \E f \in pipelines :
                  /\ f.id = g.id
                  /\ f.pc = "subject"
                  /\ FinalSubjectIdentified(f, g.data.subject)]_vars

\* ------------------------------------------------------------------ C27
\* C27: endSession requests a class name exactly when the session is a Quick
\* Record and its final transcript is longer than 50 characters; the name
\* returned becomes the class name of the record; no other step changes the
\* class name, which endSession takes from the session as it was started; and
\* the record shown in SUMMARY has the class name of the pipeline's record.
C27_ClassNameGeneration ==
    [][/\ endSession =>
            \A g \in pipelines' \ pipelines :
                /\ (g.pc = "className") <=>
                       (sessionData.className = QuickRecord
                        /\ StrLen(g.data.fullTranscript) > 50)
                /\ g.data.className = sessionData.className
       /\ \A f \in pipelines, g \in pipelines' \ pipelines :
             g.id = f.id =>
                 IF f.pc = "className"
                 THEN \E name \in GeneratedClassNames :
                         ClassNameGenerated(f, name) /\ g.data.className = name
                 ELSE g.data.className = f.data.className
       /\ sessionData'.className # sessionData.className =>
             \/ /\ \E i \in 1..MaxPendingStarts : GetUserMediaResolved(i)
                /\ sessionData'.className \in ClassNames \cup {QuickRecord}
             \/ \E f \in pipelines :
                   SummaryGenerated(f) /\ sessionData'.className = f.data.className
      ]_vars

\* A Quick Record session with a transcript of 51 characters is shown under
\* its generated name.
C27_Witness ==
    /\ appState = "SUMMARY"
    /\ sessionData.className \in GeneratedClassNames
    /\ StrLen(sessionData.fullTranscript) = 51

\* ------------------------------------------------------------------ C28
\* C28: if every generative call eventually returns or fails, a finalization
\* in progress (LOADING) is eventually followed by SUMMARY or SETUP.
C28_FinalizationTerminates ==
    (appState = "LOADING") ~> (appState \in {"SUMMARY", "SETUP"})

\* A finalization has run to its end and the summary is shown.
C28_Witness ==
    /\ appState = "SUMMARY"
    /\ pipelines = {}
    /\ failedSessions = {}
    /\ sessionData.summary = GeneratedSummary
    /\ sessionData.endTime >= sessionData.startTime

\* ------------------------------------------------------------------ C29
IsPrefix(s, t) == Len(s) <= Len(t) /\ SubSeq(t, 1, Len(s)) = s

\* C29: while the orchestrator stays ACTIVE the committed transcript only
\* grows at its end, and it changes only when a turn completes.
C29_CommittedNeverShrinks ==
    [][(appState = "ACTIVE" /\ appState' = "ACTIVE") =>
         /\ IsPrefix(fullTranscript, fullTranscript')
         /\ fullTranscript' # fullTranscript =>
               \E c \in 1..MaxSessions, part \in TextParts : LiveMessage(c, part, TRUE)
      ]_vars

\* ------------------------------------------------------------------ C30
\* C30: while the orchestrator stays ACTIVE the focus history only grows at
\* its end, by at most one sample a step; a classification that returns
\* appends exactly its sample, at the end, whatever the order in which the
\* frames were captured; and the focus history of a record being finalized or
\* shown in SUMMARY does not change.
C30_FocusHistoryAppendOnly ==
    [][/\ (appState = "ACTIVE" /\ appState' = "ACTIVE") =>
            /\ IsPrefix(focusHistory, focusHistory')
            /\ Len(focusHistory') <= Len(focusHistory) + 1
       /\ \A i \in 1..MaxInflight, score \in Scores :
             FrameAnalyzed(i, score) =>
                 focusHistory' = Append(focusHistory,
                                        [timestamp |-> now', score |-> score])
       /\ \A f \in pipelines, g \in pipelines' :
             g.id = f.id => g.data.focusHistory = f.data.focusHistory
       /\ (appState = "SUMMARY" /\ appState' = "SUMMARY") =>
             sessionData'.focusHistory = sessionData.focusHistory
      ]_vars

\* ------------------------------------------------------------------ C31
\* C31: saving a session whose class name equals, ignoring case, the name of
\* an existing class appends the session to such a class under the class's
\* stored name and creates no class; otherwise one new class of that name
\* with only this session is added; every other class and every saved session
\* stays as it was, and the state is SETUP afterwards.
C31_SaveSession ==
    [][handleSaveSession =>
        LET old == registeredClasses
            new == registeredClasses'
            ses == sessionData
            matching == {i \in DOMAIN old :
                            toLowerCase(old[i].name) = toLowerCase(ses.className)}
        IN  /\ appState' = "SETUP"
            /\ IF matching # {}
               THEN /\ Len(new) = Len(old)
                    /\ \E i \in matching :
                          /\ new[i] = [old[i] EXCEPT
                                         !.sessions = Append(@, [ses EXCEPT
                                                          !.className = old[i].name])]
                          /\ \A j \in DOMAIN old \ {i} : new[j] = old[j]
               ELSE /\ Len(new) = Len(old) + 1
                    /\ SubSeq(new, 1, Len(old)) = old
                    /\ new[Len(new)].name = ses.className
                    /\ new[Len(new)].sessions = <<ses>>]_vars

\* A session recorded for the class "BIO" is stored in the older class "Bio"
\* under that name, and a Quick Record session made a class of its own.
C31_Witness ==
    /\ appState = "SETUP"
    /\ Len(registeredClasses) = 3
    /\ registeredClasses[2].name = "BIO"
    /\ registeredClasses[2].sessions = <<>>
    /\ Len(registeredClasses[1].sessions) = 1
    /\ registeredClasses[1].sessions[1].className = "Bio"
    /\ registeredClasses[3].name \in GeneratedClassNames \cup {QuickRecord}
    /\ Len(registeredClasses[3].sessions) = 1

\* ------------------------------------------------------------------ C32
\* C32: a session that ends with a blank final transcript is finalized
\* without a remote call (the pipeline awaits only structureNotes and
\* generateFinalSummary, which cannot throw and return their fixed results,
\* with or without a key), and it is shown as a summary with notes "", the
\* summary "No content to summarize." and the subject "Not detected".
C32_BlankTranscriptFinalization ==
    /\ [](\A f \in pipelines :
             Trim(f.finalTranscript) = <<>> =>
                /\ f.pc \in {"notes", "summary"}
                /\ \A message \in ProviderErrors \cup {MsgKeyNotSetService} :
                      ~ENABLED FinalizationFailed(f, message)
                /\ ENABLED (NotesStructured(f) \/ SummaryGenerated(f)))
    /\ [][\A f \in pipelines :
             Trim(f.finalTranscript) = <<>> /\ SummaryGenerated(f) =>
                /\ appState' = "SUMMARY"
                /\ sessionData'.notes = ""
                /\ sessionData'.summary = "No content to summarize."
                /\ sessionData'.subject = "Not detected"]_vars

\* ------------------------------------------------------------------ C33
\* C33: when endSession runs after a turn completed and before the delayed
\* clearing of the interim text (no interim event of a later turn in
\* between), the final transcript is the committed transcript: the completed
\* turn's text is not appended a second time from the interim buffer.
C33_CompletedTurnOnce ==
    [][(/\ endSession
        /\ pendingClears > 0
        /\ \A c \in DOMAIN conns : conns[c].cur = <<>>)
       => \A f \in pipelines' \ pipelines :
             f.finalTranscript = Trim(fullTranscript)]_vars

\* ------------------------------------------------------------------ C34
\* C34: the clearing of the interim text scheduled at a turn's completion
\* does not erase interim text of a later turn: when the interim buffer holds
\* the text of the turn in progress as the timer fires, it holds it afterwards.
C34_ClearSparesLaterTurn ==
    [][\A c \in DOMAIN conns :
          (/\ InterimClearTimeout
           /\ conns[c].cur # <<>>
           /\ interimTranscript = conns[c].cur)
          => interimTranscript' = conns[c].cur]_vars

\* ------------------------------------------------------------------ C35
\* C35: after handleApiError has forced the state to SETUP on an
\* authentication error (the key is marked as not selected), a finalization
\* pipeline that is still running does not move the state from SETUP to
\* SUMMARY.
C35_NoSummaryAfterForcedStop ==
    [][\A f \in pipelines :
          ~(/\ SummaryGenerated(f)
            /\ appState = "SETUP"
            /\ isApiKeySelected = "false"
            /\ appState' = "SUMMARY")]_vars

\* ------------------------------------------------------------------ C36
\* The changes of the app state the specification lists.
AllowedTransitions ==
    {<<"SETUP", "ACTIVE">>, <<"ACTIVE", "LOADING">>, <<"LOADING", "SUMMARY">>,
     <<"LOADING", "SETUP">>, <<"ACTIVE", "SETUP">>, <<"SUMMARY", "SETUP">>,
     <<"SETUP", "SUMMARY">>}

\* C36: the app state changes only along the listed transitions; ACTIVE is
\* entered only from SETUP and LOADING only from ACTIVE.
C36_StateTransitions ==
    [][appState' # appState => <<appState, appState'>> \in AllowedTransitions]_vars

\* ------------------------------------------------------------------ C37
\* The samples of the focus history that begin a run of scores below 60.
StreakStarts(history) ==
    {k \in DOMAIN history :
        history[k].score < 60 /\ (k = 1 \/ history[k - 1].score >= 60)}

\* C37: while a session is ACTIVE, every low-focus timestamp is the timestamp
\* of a sample of the focus history that has a score below 60 and is the
\* first of a low-focus streak; there are as many low-focus timestamps as
\* streaks have started, and no more than samples.
C37_LowFocusTimestampsConsistent ==
    appState = "ACTIVE" =>
        /\ \A i \in DOMAIN lowFocusTimestamps :
              \E k \in StreakStarts(focusHistory) :
                  focusHistory[k].timestamp = lowFocusTimestamps[i]
        /\ Len(lowFocusTimestamps) = Cardinality(StreakStarts(focusHistory))
        /\ Len(lowFocusTimestamps) <= Len(focusHistory)
====
